---- MODULE Spec2Model ----
(***************************************************************************)
(* A model of the AI film studio front end (tamirka/ainario): the App      *)
(* component's generation handlers (storyboard orchestration, JSON         *)
(* post-processing), and the AnimateImagePage component tree that calls    *)
(* them.                                                                   *)
(*                                                                         *)
(* Strings are sequences of tokens; every token stands for the fixed,      *)
(* non-empty piece of text written in its definition, so concatenation is  *)
(* \o, the empty string is << >> and a string is truthy iff it is not      *)
(* << >>.  An optional value (T | null) is a sequence of length 0 or 1.    *)
(* FENCE stands for the three-backquote code-fence marker.  JavaScript's   *)
(* Array.prototype.filter is SelectSeq.                                    *)
(***************************************************************************)
EXTENDS Integers, Sequences, FiniteSets, TLC

(***************************************************************************)
(* Bounds of the model.                                                    *)
(***************************************************************************)
MaxScenes == 3
MaxRespLen == 5
MaxRuns == 2
MaxUIScenes == 2
MaxPromptLen == 5

(***************************************************************************)
(* Option values and strings.                                              *)
(***************************************************************************)
None == << >>
Some(x) == << x >>

SP == " "
NL == "\n"
FENCE == "<fence>"
JSONWORD == "json"
LBRACKET == "["
RBRACKET == "]"
COMMA == ","
QUOTE == "\""
DIGIT == "1"

IsWhite(t) == t \in {SP, NL}

RECURSIVE TrimStart(_)
TrimStart(s) ==
  IF s # << >> /\ IsWhite(Head(s)) THEN TrimStart(Tail(s)) ELSE s

RECURSIVE TrimEnd(_)
TrimEnd(s) ==
  IF s # << >> /\ IsWhite(s[Len(s)]) THEN TrimEnd(SubSeq(s, 1, Len(s) - 1)) ELSE s

\* String.prototype.trim
Trim(s) == TrimEnd(TrimStart(s))

\* all sequences over S of length at most n
SeqsUpTo(S, n) == UNION { [1..k -> S] : k \in 0..n }

(***************************************************************************)
(* JSON.parse and JSON.stringify(value, null, 2) on the texts that can be  *)
(* written with the tokens above: numbers (runs of DIGIT), strings         *)
(* (QUOTE ... QUOTE, holding any token but QUOTE and a raw NL), arrays,    *)
(* null and the object texts below.                                        *)
(* A value is [type, text, items].  The word JSONWORD and FENCE are no     *)
(* JSON outside a string, so JSON.parse rejects a text that holds them     *)
(* there.                                                                  *)
(***************************************************************************)
JsonNumber(digits) == [type |-> "number", text |-> digits, items |-> << >>]
JsonString(chars) == [type |-> "string", text |-> chars, items |-> << >>]
JsonArray(items) == [type |-> "array", text |-> << >>, items |-> items]

JsonNull == [type |-> "null", text |-> << >>, items |-> << >>]
\* an object, by the two members the program reads: None where it has none
JsonObject(generation_prompt, scenes) ==
  [type |-> "object", text |-> << >>, items |-> << >>,
   generation_prompt |-> generation_prompt, scenes |-> scenes]

\* the literal null and whole object texts, each written as one token; they
\* are typed or pasted into the master prompt, no modelled response holds them
NULLWORD == "null"
SHOT_P == "{\"generation_prompt\":\"p\"}"
SHOT_BLANK == "{\"generation_prompt\":\" \"}"
SHOT_NUMBER == "{\"generation_prompt\":1}"
SHOT_BARE == "{}"
WRAPPER_Q == "{\"scenes\":[{\"generation_prompt\":\"q\"}]}"
WRAPPER_EMPTY == "{\"scenes\":[]}"
\* JSON.parse of an object token
ObjectOf ==
  [t \in {SHOT_P, SHOT_BLANK, SHOT_NUMBER, SHOT_BARE, WRAPPER_Q, WRAPPER_EMPTY} |->
     CASE t = SHOT_P -> JsonObject(Some(JsonString(<< "p" >>)), None)
       [] t = SHOT_BLANK -> JsonObject(Some(JsonString(<< SP >>)), None)
       [] t = SHOT_NUMBER -> JsonObject(Some(JsonNumber(<< DIGIT >>)), None)
       [] t = SHOT_BARE -> JsonObject(None, None)
       [] t = WRAPPER_Q ->
            JsonObject(None,
              Some(JsonArray(<< JsonObject(Some(JsonString(<< "q" >>)), None) >>)))
       [] t = WRAPPER_EMPTY -> JsonObject(None, Some(JsonArray(<< >>)))]

ParseFail == [ok |-> FALSE, val |-> JsonArray(<< >>), rest |-> << >>]
ParseOk(v, rest) == [ok |-> TRUE, val |-> v, rest |-> rest]

\* the number of leading tokens of s that satisfy IsDigit
RECURSIVE DigitRun(_)
DigitRun(s) == IF s # << >> /\ Head(s) = DIGIT THEN 1 + DigitRun(Tail(s)) ELSE 0

\* the position of the first QUOTE of s, 0 if there is none
RECURSIVE FirstQuote(_, _)
FirstQuote(s, i) ==
  IF i > Len(s) THEN 0 ELSE IF s[i] = QUOTE THEN i ELSE FirstQuote(s, i + 1)

RECURSIVE ParseValue(_)
RECURSIVE ParseElements(_, _)
ParseValue(s) ==
  IF s = << >> THEN ParseFail
  ELSE IF Head(s) = DIGIT
    THEN LET n == DigitRun(s)
         IN ParseOk(JsonNumber(SubSeq(s, 1, n)), SubSeq(s, n + 1, Len(s)))
  ELSE IF Head(s) = QUOTE
    THEN LET k == FirstQuote(s, 2)
         IN IF k = 0 \/ (\E j \in 2..(k - 1) : s[j] = NL) THEN ParseFail
            ELSE ParseOk(JsonString(SubSeq(s, 2, k - 1)), SubSeq(s, k + 1, Len(s)))
  ELSE IF Head(s) = NULLWORD THEN ParseOk(JsonNull, Tail(s))
  ELSE IF Head(s) \in DOMAIN ObjectOf THEN ParseOk(ObjectOf[Head(s)], Tail(s))
  ELSE IF Head(s) = LBRACKET
    THEN LET r == TrimStart(Tail(s))
         IN IF r # << >> /\ Head(r) = RBRACKET
              THEN ParseOk(JsonArray(<< >>), Tail(r))
              ELSE ParseElements(r, << >>)
  ELSE ParseFail

ParseElements(s, acc) ==
  LET e == ParseValue(s)
      r == TrimStart(e.rest)
  IN IF ~e.ok \/ r = << >> THEN ParseFail
     ELSE IF Head(r) = COMMA
       THEN ParseElements(TrimStart(Tail(r)), Append(acc, e.val))
     ELSE IF Head(r) = RBRACKET
       THEN ParseOk(JsonArray(Append(acc, e.val)), Tail(r))
     ELSE ParseFail

\* JSON.parse: ok is FALSE where it throws a SyntaxError
JSONParse(s) ==
  LET r == ParseValue(TrimStart(s))
  IN IF r.ok /\ TrimStart(r.rest) = << >> THEN r ELSE ParseFail

Indent(level) == [i \in 1..(2 * level) |-> SP]

RECURSIVE Stringify(_, _)
RECURSIVE StringifyItems(_, _)
\* JSON.stringify(v, null, 2), at nesting depth level
Stringify(v, level) ==
  IF v.type = "number" THEN v.text
  ELSE IF v.type = "string" THEN << QUOTE >> \o v.text \o << QUOTE >>
  ELSE IF v.items = << >> THEN << LBRACKET, RBRACKET >>
  ELSE << LBRACKET, NL >> \o StringifyItems(v.items, level + 1)
         \o << NL >> \o Indent(level) \o << RBRACKET >>

StringifyItems(items, level) ==
  Indent(level) \o Stringify(Head(items), level)
    \o (IF Len(items) = 1 THEN << >>
        ELSE << COMMA, NL >> \o StringifyItems(Tail(items), level))

\* the position of the first FENCE of s directly followed by JSONWORD, 0 if none
RECURSIVE FirstFenceJson(_, _)
FirstFenceJson(s, i) ==
  IF i + 1 > Len(s) THEN 0
  ELSE IF s[i] = FENCE /\ s[i + 1] = JSONWORD THEN i
  ELSE FirstFenceJson(s, i + 1)

\* promptText.replace(/<fence>json\n?/, ''): the first match only, anywhere
StripOpeningFence(s) ==
  LET i == FirstFenceJson(s, 1)
      j == IF i > 0 /\ i + 2 <= Len(s) /\ s[i + 2] = NL THEN i + 3 ELSE i + 2
  IN IF i = 0 THEN s ELSE SubSeq(s, 1, i - 1) \o SubSeq(s, j, Len(s))

\* .replace(/<fence>$/, ''): without the m flag $ is the end of the input only
StripClosingFence(s) ==
  IF s # << >> /\ s[Len(s)] = FENCE THEN SubSeq(s, 1, Len(s) - 1) ELSE s

\* the clean-up of the model's text, before parsing
CleanMarkdown(text) == Trim(StripClosingFence(StripOpeningFence(text)))

\* the post-processing of masterPromptResponse.text
PostProcess(text, promptFormat) ==
  IF promptFormat = "json"
    THEN LET cleaned == CleanMarkdown(text)
             parsed == JSONParse(cleaned)
         IN IF parsed.ok THEN Stringify(parsed.val, 0) ELSE cleaned
    ELSE text

(***************************************************************************)
(* Fixed texts of the program.                                             *)
(***************************************************************************)
NoStyle == "No Style"
StyleNames == {NoStyle, "Noir Thriller"}
Formats == {"classic", "json"}
AddSceneMsg == "Please add at least one scene to the storyboard."
StoryboardFailure ==
  << "Failed to generate storyboard.",
     "Please check your connection or API key and try again." >>
GenericError == "Could not generate storyboard."
NoImagesError == "No images generated from prompt."
NoStyleGuide ==
  "No specific cinematic style has been selected; rely on the reference image (if provided) and scene descriptions for style cues."
FramingText ==
  "Based on the following storyboard scenes (text and images), and adhering to the specified cinematic and technical guidance, create a series of detailed, individual shot prompts for a video generation model."
StyleAnalysisText ==
  "You are a master art director creating a prompt for an AI image generator. Based on the provided image, describe its visual style using a concise, comma-separated list of keywords. Focus on mood, color palette, lighting, and key artistic characteristics."

(***************************************************************************)
(* What the generative service may answer (the environment).               *)
(***************************************************************************)
\* the reason of a rejected service call
ServiceError == "service error"
\* the text of a successful image-style analysis
StyleKeywords == << "moody, low-key lighting" >>
\* the outcomes of one generateImages call: image bytes, a response without
\* image bytes, a rejected call
ImageOutcomes == {"bytes", "nobytes", "reject"}
\* texts the service answers the master-synthesis call with
ClassicResponse == << "--- SCENE 1 ---", NL, "x", NL, "--- SCENE 2 ---", NL, "y" >>
FencedJsonResponse == << FENCE, JSONWORD, NL, LBRACKET, DIGIT, RBRACKET, NL, FENCE >>
BrokenJsonResponse == << LBRACKET, DIGIT, COMMA >>
SampleResponses == {ClassicResponse, FencedJsonResponse, BrokenJsonResponse}

(***************************************************************************)
(* The state.                                                              *)
(*   App:               generationError, isSaving, playingVideo,           *)
(*                      generatedResult                                    *)
(*   AnimateImagePage:  masterPrompt, visualStoryboard, videoType          *)
(*   the mounted generator (StoryboardGenerator, LogoAnimator or           *)
(*   YouTubeIntroGenerator, one at a time, by videoType):                  *)
(*                      isGenerating, scenes, imageFile, selectedStyle,    *)
(*                      promptFormat, genVisualStoryboard (the             *)
(*                      StoryboardGenerator's own visualStoryboard),       *)
(*                      logoFile, channelName, videoTopic                  *)
(*   runs:   the invocations of the App's generation handlers, each at an  *)
(*           await or finished                                             *)
(*   calls:  the requests sent to the service so far                       *)
(***************************************************************************)
VARIABLES generationError, masterPrompt, visualStoryboard, videoType,
          isGenerating, scenes, imageFile, selectedStyle, promptFormat,
          genVisualStoryboard, logoFile, channelName, videoTopic,
          runs, calls, isSaving, playingVideo, generatedResult, explainer

viewVars == << isSaving, playingVideo, generatedResult >>
appVars == << generationError, isSaving, playingVideo, generatedResult >>
pageVars == << masterPrompt, visualStoryboard, videoType >>
genVars == << isGenerating, scenes, imageFile, selectedStyle, promptFormat,
              genVisualStoryboard, logoFile, channelName, videoTopic >>
vars == << generationError, masterPrompt, visualStoryboard, videoType,
           isGenerating, scenes, imageFile, selectedStyle, promptFormat,
           genVisualStoryboard, logoFile, channelName, videoTopic,
           runs, calls, isSaving, playingVideo, generatedResult,
           explainer >>

(***************************************************************************)
(* App.handleGenerateStoryboard, as pure steps on one run record.          *)
(***************************************************************************)
\* mutant: the scene text is tested without trimming it
NonEmptyUntrimmed(scene) == scene # << >>

NonEmpty(scene) == Trim(scene) # << >>

\* scenes.filter((s) => s.trim())
nonEmptyScenes(sc) == SelectSeq(sc, NonEmpty)

\* Step 1: the style guide made from the selected style alone
StyleGuideBase(style) ==
  IF style # NoStyle THEN << "Cinematic Style: ", style, "." >> ELSE << NoStyleGuide >>

\* styleGuide += `\nReference Image Style: ${imageStyle}`
StyleGuideWithImage(guide, imageStyle) ==
  guide \o << NL, "Reference Image Style: " >> \o imageStyle

\* mutant: the two entries are joined without dropping the empty ones
styleForPromptUnfiltered(style, keywords) ==
  (IF style # NoStyle THEN << style >> ELSE << >>) \o << ", " >> \o keywords

\* [selectedStyle !== 'No Style' ? selectedStyle : '', imageStyleKeywords]
\*   .filter(Boolean).join(', ')
styleForPrompt(style, keywords) ==
  LET name == IF style # NoStyle THEN << style >> ELSE << >>
  IN IF name # << >> /\ keywords # << >> THEN name \o << ", " >> \o keywords
     ELSE name \o keywords

\* `${styleForPrompt ? styleForPrompt + ', ' : ''}cinematic shot depicting ${scene.trim()}`
fullPrompt(style, keywords, scene) ==
  LET sfp == styleForPrompt(style, keywords)
  IN (IF sfp # << >> THEN sfp \o << ", " >> ELSE << >>)
       \o << "cinematic shot depicting " >> \o Trim(scene)

TextPart(text) == [text |-> text, inlineData |-> None]
ImagePart(data) == [text |-> << >>, inlineData |-> Some(data)]

NoCall == 0
Pending(call) == [status |-> "pending", value |-> None, reason |-> "", call |-> call]
Fulfilled(value, call) ==
  [status |-> "fulfilled", value |-> value, reason |-> "", call |-> call]
Rejected(reason, call) ==
  [status |-> "rejected", value |-> None, reason |-> reason, call |-> call]

\* a request to the service: ai.models.generateImages or ai.models.generateContent;
\* answer: what the service answered to a generateImages request, once it has
ImageCall(r, i, prompt, aspectRatio) ==
  [op |-> "generateImages", purpose |-> "scene", run |-> r, scene |-> i,
   prompt |-> prompt, aspectRatio |-> aspectRatio, numberOfImages |-> 1,
   parts |-> << >>, answer |-> "pending"]
ContentCall(r, purpose, parts) ==
  [op |-> "generateContent", purpose |-> purpose, run |-> r, scene |-> 0,
   prompt |-> << >>, aspectRatio |-> "", numberOfImages |-> 0, parts |-> parts,
   answer |-> "pending"]

\* the run record of a call that has not passed its first statement.
\* caller: the component whose handler awaits the run ("generator"), or
\* "direct"; callerMounted: whether that component instance is still mounted;
\* pageMounted: whether the AnimateImagePage instance that holds it still is;
\* prompt: the prompt handleAnimate was called with;
\* styleAnalysis: how the image-style analysis of the run ended;
\* masterText: masterPromptResponse.text, the text the service answered; of a
\* preview, the master prompt the page held when it called handleAnimate
NewRun(kind, caller, sc, img, style, fmt) ==
  [kind |-> kind, caller |-> caller, callerMounted |-> caller # "direct",
   pageMounted |-> caller # "direct", prompt |-> << >>,
   pc |-> "start", styleAnalysis |-> "none",
   scenes |-> sc, imageFile |-> img, selectedStyle |-> style, promptFormat |-> fmt,
   styleGuide |-> << >>, imageStyleKeywords |-> << >>,
   imagePromises |-> << >>, sceneImages |-> << >>, promptParts |-> << >>,
   masterText |-> None, result |-> None, thrown |-> None]

\* how many service calls scenes.map has issued before it reaches scene i
RECURSIVE IssuedBefore(_, _)
IssuedBefore(sc, i) ==
  IF i <= 1 THEN 0
  ELSE IssuedBefore(sc, i - 1) + (IF NonEmpty(sc[i - 1]) THEN 1 ELSE 0)

\* Step 2: scenes.map((scene) => scene.trim() ? generateImage(fullPrompt, '4:3')
\*                                             : Promise.resolve(null))
\* base is the number of calls issued before the map
imagePromises(run, base) ==
  [i \in 1..Len(run.scenes) |->
     IF NonEmpty(run.scenes[i])
       THEN Pending(base + IssuedBefore(run.scenes, i) + 1)
       ELSE Fulfilled(None, NoCall)]

\* mutant: a request is sent for every scene, empty or not
RECURSIVE ImageCallsEveryScene(_, _, _)
ImageCallsEveryScene(run, r, i) ==
  IF i > Len(run.scenes) THEN << >>
  ELSE << ImageCall(r, i,
            fullPrompt(run.selectedStyle, run.imageStyleKeywords, run.scenes[i]),
            "4:3") >> \o ImageCallsEveryScene(run, r, i + 1)

\* the requests the map sends, in the order of the scenes
RECURSIVE ImageCalls(_, _, _)
ImageCalls(run, r, i) ==
  IF i > Len(run.scenes) THEN << >>
  ELSE (IF NonEmpty(run.scenes[i])
          THEN << ImageCall(r, i,
                    fullPrompt(run.selectedStyle, run.imageStyleKeywords, run.scenes[i]),
                    "4:3") >>
          ELSE << >>) \o ImageCalls(run, r, i + 1)

\* mutant: the outcomes are collected in another order than the scenes'
sceneImagesReversed(promises) ==
  [i \in 1..Len(promises) |->
     LET p == promises[Len(promises) + 1 - i]
     IN IF p.status = "fulfilled" THEN p.value ELSE None]

\* imageResults.map(...): the value of a fulfilled promise, null for a rejected one
sceneImagesOf(promises) ==
  [i \in 1..Len(promises) |->
     IF promises[i].status = "fulfilled" THEN promises[i].value ELSE None]

\* mutant: an empty scene is not skipped
RECURSIVE ScenePartsEveryScene(_, _, _)
ScenePartsEveryScene(sc, images, i) ==
  IF i > Len(sc) THEN << >>
  ELSE << TextPart(<< "Scene ", ToString(i), ": " >> \o Trim(sc[i])) >>
         \o (IF images[i] # None THEN << ImagePart(images[i][1]) >> ELSE << >>)
         \o ScenePartsEveryScene(sc, images, i + 1)

\* Step 3: the parts of the master request
RECURSIVE ScenePartsFrom(_, _, _)
ScenePartsFrom(sc, images, i) ==
  IF i > Len(sc) THEN << >>
  ELSE (IF NonEmpty(sc[i])
          THEN << TextPart(<< "Scene ", ToString(i), ": " >> \o Trim(sc[i])) >>
                 \o (IF images[i] # None THEN << ImagePart(images[i][1]) >> ELSE << >>)
          ELSE << >>) \o ScenePartsFrom(sc, images, i + 1)

\* mutant: the empty scenes are dropped before the scenes are numbered
promptPartsCompacted(sc, guide, images) ==
  LET kept == SelectSeq([i \in 1..Len(sc) |-> [scene |-> sc[i], image |-> images[i]]],
                        LAMBDA e : NonEmpty(e.scene))
  IN << TextPart(<< FramingText >>),
        TextPart(<< "--- STYLE GUIDANCE ---", NL >> \o guide) >>
       \o ScenePartsFrom([k \in 1..Len(kept) |-> kept[k].scene],
                         [k \in 1..Len(kept) |-> kept[k].image], 1)

promptParts(sc, guide, images) ==
  << TextPart(<< FramingText >>),
     TextPart(<< "--- STYLE GUIDANCE ---", NL >> \o guide) >>
    \o ScenePartsFrom(sc, images, 1)

\* mutant: the wait ends when the first outcome is in
AllSettledAny(promises) == \E i \in 1..Len(promises) : promises[i].status # "pending"

AllSettled(promises) == \A i \in 1..Len(promises) : promises[i].status # "pending"

\* mutant: the joint wait is Promise.all, which rejects on the first rejection
AwaitImagesFailFast(run, r, log) ==
  IF \E i \in 1..Len(run.imagePromises) : run.imagePromises[i].status = "rejected"
    THEN [run |-> [run EXCEPT !.pc = "rejected", !.thrown = Some(GenericError)],
          calls |-> log]
  ELSE IF \A i \in 1..Len(run.imagePromises) : run.imagePromises[i].status # "pending"
    THEN LET images == [i \in 1..Len(run.imagePromises) |-> run.imagePromises[i].value]
             parts == promptParts(run.scenes, run.styleGuide, images)
         IN [run |-> [run EXCEPT !.pc = "master", !.sceneImages = images,
                                 !.promptParts = parts],
             calls |-> Append(log, ContentCall(r, "master", parts))]
    ELSE [run |-> [run EXCEPT !.pc = "images"], calls |-> log]

\* From the end of step 1 to the next await: the image calls are issued, and
\* once Promise.allSettled has every outcome the master request is built and
\* sent.  Gives the run and the call log.
AwaitImages(run, r, log) ==
  IF AllSettled(run.imagePromises)
    THEN LET images == sceneImagesOf(run.imagePromises)
             parts == promptParts(run.scenes, run.styleGuide, images)
         IN [run |-> [run EXCEPT !.pc = "master", !.sceneImages = images,
                                 !.promptParts = parts],
             calls |-> Append(log, ContentCall(r, "master", parts))]
    ELSE [run |-> [run EXCEPT !.pc = "images"], calls |-> log]

IssueImages(run, r, log) ==
  AwaitImages([run EXCEPT !.imagePromises = imagePromises(run, Len(log))],
              r, log \o ImageCalls(run, r, 1))

\* From the call to the first await.  Gives the run, the call log and
\* generationError.
StartStoryboard(run, r, log) ==
  IF nonEmptyScenes(run.scenes) = << >>
    THEN [run |-> [run EXCEPT !.pc = "rejected", !.thrown = Some(AddSceneMsg)],
          calls |-> log,
          generationError |-> Some(<< AddSceneMsg >>)]
    ELSE LET styled == [run EXCEPT !.styleGuide = StyleGuideBase(run.selectedStyle)]
             next == IF run.imageFile
                       THEN [run |-> [styled EXCEPT !.pc = "encode"], calls |-> log]
                       ELSE IssueImages(styled, r, log)
         IN [run |-> next.run, calls |-> next.calls, generationError |-> None]

(***************************************************************************)
(* The component that awaits a run.  When the run's promise settles the    *)
(* rest of the generator's handler runs in the same task.  The page's      *)
(* setters (onPromptGenerated, onVisualsGenerated) act on the page while   *)
(* the App renders it; the generator's own setters act only while the      *)
(* instance that started the run is still mounted.                         *)
(***************************************************************************)
\* StoryboardGenerator.handleGenerateStoryboard, LogoAnimator.handleGenerate,
\* YouTubeIntroGenerator.handleGenerate: from the await to the end
CallerContinues(run) ==
  IF run.caller = "direct"
    THEN UNCHANGED << pageVars, genVars >>
    ELSE /\ masterPrompt' = IF run.pc = "returned" /\ run.pageMounted
                              THEN run.result[1].prompts
                            ELSE masterPrompt
         /\ visualStoryboard' =
              IF run.pc = "returned" /\ run.kind = "storyboard" /\ run.pageMounted
                THEN run.result[1].sceneImages ELSE visualStoryboard
         /\ genVisualStoryboard' =
              IF run.pc = "returned" /\ run.kind = "storyboard" /\ run.callerMounted
                THEN run.result[1].sceneImages ELSE genVisualStoryboard
         /\ isGenerating' = IF run.callerMounted THEN FALSE ELSE isGenerating
         /\ UNCHANGED << videoType, scenes, imageFile, selectedStyle,
                         promptFormat, logoFile, channelName, videoTopic >>

(***************************************************************************)
(* The steps of a run.                                                     *)
(***************************************************************************)
RunIds == 1..Len(runs)

\* mutant: an unreadable reference image ends the storyboard run, as an
\* unreadable logo ends the logo run
EncodeSettleFatal(r, ok) ==
  /\ runs[r].pc = "encode"
  /\ IF ok
       THEN /\ runs' = [runs EXCEPT ![r].pc =
                         IF runs[r].kind = "storyboard" THEN "style" ELSE "text"]
            /\ calls' = Append(calls,
                 ContentCall(r, IF runs[r].kind = "storyboard" THEN "style"
                                ELSE runs[r].kind,
                   << TextPart(<< StyleAnalysisText >>), ImagePart(0) >>))
            /\ UNCHANGED << explainer, appVars, pageVars, genVars >>
       ELSE LET run == [runs[r] EXCEPT !.pc = "rejected",
                                       !.thrown = Some("read error"),
                                       !.styleAnalysis = "unreadable"]
            IN /\ runs' = [runs EXCEPT ![r] = run]
               /\ CallerContinues(run)
               /\ UNCHANGED << explainer, appVars, calls >>

\* the FileReader of analyzeImageStyle (storyboard) or of
\* handleGenerateLogoPrompt (logo) fires onload or onerror
EncodeSettle(r, ok) ==
  /\ runs[r].pc = "encode"
  /\ IF runs[r].kind = "storyboard"
       THEN LET next ==
                  IF ok
                    THEN [run |-> [runs[r] EXCEPT !.pc = "style"],
                          calls |-> Append(calls,
                            ContentCall(r, "style",
                              << TextPart(<< StyleAnalysisText >>), ImagePart(0) >>))]
                    ELSE IssueImages([runs[r] EXCEPT !.styleAnalysis = "unreadable"],
                                     r, calls)
            IN /\ runs' = [runs EXCEPT ![r] = next.run]
               /\ calls' = next.calls
               /\ UNCHANGED << explainer, appVars, pageVars, genVars >>
       ELSE IF ok
         THEN /\ runs' = [runs EXCEPT ![r].pc = "text"]
              /\ calls' = Append(calls,
                   ContentCall(r, runs[r].kind,
                     << TextPart(<< "logo prompt" >>), ImagePart(0) >>))
              /\ UNCHANGED << explainer, appVars, pageVars, genVars >>
         ELSE LET run == [runs[r] EXCEPT !.pc = "rejected",
                                         !.thrown = Some("read error")]
              IN /\ runs' = [runs EXCEPT ![r] = run]
                 /\ CallerContinues(run)
                 /\ UNCHANGED << explainer, appVars, calls >>

\* mutant: a rejected style analysis is not caught and ends the run
StyleSettleFatal(r, ok) ==
  /\ runs[r].pc = "style"
  /\ IF ok
       THEN LET next == IssueImages(
                          [runs[r] EXCEPT
                             !.styleGuide = StyleGuideWithImage(@, StyleKeywords),
                             !.imageStyleKeywords = StyleKeywords,
                             !.styleAnalysis = "resolved"], r, calls)
            IN /\ runs' = [runs EXCEPT ![r] = next.run]
               /\ calls' = next.calls
               /\ UNCHANGED << explainer, appVars >>
       ELSE /\ runs' = [runs EXCEPT ![r].pc = "rejected",
                                    ![r].thrown = Some(GenericError),
                                    ![r].styleAnalysis = "rejected"]
            /\ generationError' = Some(StoryboardFailure)
            /\ UNCHANGED << explainer, viewVars, calls >>
  /\ UNCHANGED << pageVars, genVars >>

\* the style-analysis generateContent call resolves with text or rejects
StyleSettle(r, ok) ==
  /\ runs[r].pc = "style"
  /\ LET run == IF ok
                  THEN [runs[r] EXCEPT
                          !.styleGuide = StyleGuideWithImage(@, StyleKeywords),
                          !.imageStyleKeywords = StyleKeywords,
                          !.styleAnalysis = "resolved"]
                  ELSE [runs[r] EXCEPT !.styleAnalysis = "rejected"]
         next == IssueImages(run, r, calls)
     IN /\ runs' = [runs EXCEPT ![r] = next.run]
        /\ calls' = next.calls
  /\ UNCHANGED << explainer, appVars, pageVars, genVars >>

\* mutant: the test for missing image bytes is left out
generateImageUnchecked(outcome, call) ==
  IF outcome = "bytes" THEN Fulfilled(Some(call), call)
  ELSE IF outcome = "nobytes" THEN Fulfilled(None, call)
  ELSE Rejected(ServiceError, call)

\* generateImage, from its await to its end
generateImageResult(outcome, call) ==
  IF outcome = "bytes" THEN Fulfilled(Some(call), call)
  ELSE IF outcome = "nobytes" THEN Rejected(NoImagesError, call)
  ELSE Rejected(ServiceError, call)

\* the generateImages call of scene i settles
ImageSettle(r, i, outcome) ==
  /\ runs[r].pc = "images"
  /\ i \in 1..Len(runs[r].imagePromises)
  /\ runs[r].imagePromises[i].status = "pending"
  /\ LET call == runs[r].imagePromises[i].call
         settled == generateImageResult(outcome, call)
         next == AwaitImages([runs[r] EXCEPT !.imagePromises[i] = settled], r,
                             [calls EXCEPT ![call].answer = outcome])
     IN /\ runs' = [runs EXCEPT ![r] = next.run]
        /\ calls' = next.calls
  /\ UNCHANGED << explainer, appVars, pageVars, genVars >>

\* the master-synthesis generateContent call resolves with text
MasterResolve(r, text) ==
  /\ runs[r].pc = "master"
  /\ LET prompts == PostProcess(text, runs[r].promptFormat)
         run == [runs[r] EXCEPT
                   !.pc = "returned",
                   !.masterText = Some(text),
                   !.result = Some([prompts |-> prompts,
                                    sceneImages |-> runs[r].sceneImages])]
     IN /\ runs' = [runs EXCEPT ![r] = run]
        /\ CallerContinues(run)
  /\ UNCHANGED << explainer, appVars, calls >>

\* mutant: a rejected master request is sent once more
MasterRejectRetry(r) ==
  /\ runs[r].pc = "master"
  /\ Len(calls) < 2 * MaxScenes + 4
  /\ calls' = Append(calls, ContentCall(r, "master", runs[r].promptParts))
  /\ UNCHANGED << explainer, appVars, pageVars, genVars, runs >>

\* the master-synthesis generateContent call rejects
MasterReject(r) ==
  /\ runs[r].pc = "master"
  /\ LET run == [runs[r] EXCEPT !.pc = "rejected", !.thrown = Some(GenericError)]
     IN /\ runs' = [runs EXCEPT ![r] = run]
        /\ CallerContinues(run)
  /\ generationError' = Some(StoryboardFailure)
  /\ UNCHANGED << explainer, viewVars, calls >>

(***************************************************************************)
(* App.handleGenerateStoryboard called with arbitrary arguments.           *)
(***************************************************************************)
SceneTexts == { << >>, << SP >>, << SP, "a" >>, << "b" >> }

handleGenerateStoryboard(caller, sc, img, style, fmt) ==
  LET r == Len(runs) + 1
      next == StartStoryboard(NewRun("storyboard", caller, sc, img, style, fmt),
                              r, calls)
  IN /\ runs' = Append(runs, next.run)
     /\ calls' = next.calls
     /\ generationError' = next.generationError
     /\ UNCHANGED << explainer, viewVars >>

\* one invocation is followed from its call to its end
CallStoryboard(sc, img, style, fmt) ==
  /\ runs = << >>
  /\ handleGenerateStoryboard("direct", sc, img, style, fmt)
  /\ UNCHANGED << pageVars, genVars >>

\* ExplainerVideoGenerator as it mounts: its useState initial values, and
\* the calls it has made of its onGenerateExplainerVideoPrompt prop
ExplainerMounted ==
  [topic |-> << >>, keyPoints |-> << << >> >>, isGenerating |-> FALSE,
   promptFormat |-> "json", requests |-> << >>]

Init ==
  /\ generationError = None
  /\ masterPrompt = << >>
  /\ visualStoryboard = << >>
  /\ videoType = "storyboard"
  /\ isGenerating = FALSE
  /\ scenes = << << >> >>
  /\ imageFile = FALSE
  /\ selectedStyle = NoStyle
  /\ promptFormat = "classic"
  /\ genVisualStoryboard = << >>
  /\ logoFile = FALSE
  /\ channelName = << >>
  /\ videoTopic = << >>
  /\ runs = << >>
  /\ calls = << >>
  /\ isSaving = FALSE
  /\ playingVideo = None
  /\ generatedResult = None
  /\ explainer = ExplainerMounted

Next ==
  \/ \E sc \in SeqsUpTo(SceneTexts, MaxScenes), img \in BOOLEAN,
        style \in StyleNames, fmt \in Formats :
       CallStoryboard(sc, img, style, fmt)
  \/ \E r \in RunIds, ok \in BOOLEAN : EncodeSettle(r, ok)
  \/ \E r \in RunIds, ok \in BOOLEAN : StyleSettle(r, ok)
  \/ \E r \in RunIds, i \in 1..MaxScenes, outcome \in ImageOutcomes :
       ImageSettle(r, i, outcome)
  \/ \E r \in RunIds, text \in SampleResponses : MasterResolve(r, text)
  \/ \E r \in RunIds : MasterReject(r)

\* the storyboard orchestrator, one invocation with any arguments
Spec == Init /\ [][Next]_vars

(***************************************************************************)
(* handleGenerateLogoPrompt and handleGenerateYouTubeIntroPrompt: one      *)
(* generateContent call, after the logo was read for the logo recipe; the  *)
(* text comes back as it is, and a failure sets no generationError.        *)
(***************************************************************************)
TextResolve(r, text) ==
  /\ runs[r].pc = "text"
  /\ LET run == [runs[r] EXCEPT
                   !.pc = "returned",
                   !.masterText = Some(text),
                   !.result = Some([prompts |-> text, sceneImages |-> << >>])]
     IN /\ runs' = [runs EXCEPT ![r] = run]
        /\ CallerContinues(run)
  /\ UNCHANGED << explainer, appVars, calls >>

TextReject(r) ==
  /\ runs[r].pc = "text"
  /\ LET run == [runs[r] EXCEPT !.pc = "rejected", !.thrown = Some(ServiceError)]
     IN /\ runs' = [runs EXCEPT ![r] = run]
        /\ CallerContinues(run)
  /\ UNCHANGED << explainer, appVars, calls >>

(***************************************************************************)
(* AnimateImagePage and the generator it mounts for the video type.        *)
(***************************************************************************)
EnabledTypes == {"storyboard", "logo", "introOutro"}
\* what the user types into a scene, channel-name or topic field
UITexts == { << >>, << "a" >> }
\* what the service answers while the page is driven
UIImageOutcomes == {"bytes", "reject"}
UIResponses == {ClassicResponse, FencedJsonResponse}

\* mutant: the page has no effect on [videoType], its outputs stay
SelectVideoTypeKeepsOutputs(type) ==
  /\ type # videoType
  /\ videoType' = type
  /\ isGenerating' = FALSE
  /\ scenes' = << << >> >>
  /\ imageFile' = FALSE
  /\ selectedStyle' = NoStyle
  /\ promptFormat' = "classic"
  /\ genVisualStoryboard' = << >>
  /\ logoFile' = FALSE
  /\ channelName' = << >>
  /\ videoTopic' = << >>
  /\ runs' = [r \in RunIds |-> [runs[r] EXCEPT !.callerMounted = FALSE]]
  /\ UNCHANGED << explainer, appVars, calls, masterPrompt, visualStoryboard >>

\* VideoTypeSelector onSelect, the page's effect on [videoType], and the
\* generator of the old type giving way to a fresh one of the new type
SelectVideoType(type) ==
  /\ type # videoType
  /\ videoType' = type
  /\ masterPrompt' = << >>
  /\ visualStoryboard' = << >>
  /\ isGenerating' = FALSE
  /\ scenes' = << << >> >>
  /\ imageFile' = FALSE
  /\ selectedStyle' = NoStyle
  /\ promptFormat' = "classic"
  /\ genVisualStoryboard' = << >>
  /\ logoFile' = FALSE
  /\ channelName' = << >>
  /\ videoTopic' = << >>
  /\ runs' = [r \in RunIds |-> [runs[r] EXCEPT !.callerMounted = FALSE]]
  /\ UNCHANGED << explainer, appVars, calls >>

handleSceneChange(index, value) ==
  /\ videoType = "storyboard"
  /\ index \in 1..Len(scenes)
  /\ value # scenes[index]
  /\ scenes' = [scenes EXCEPT ![index] = value]
  /\ UNCHANGED << explainer, appVars, pageVars, isGenerating, imageFile, selectedStyle,
                  promptFormat, genVisualStoryboard, logoFile, channelName,
                  videoTopic, runs, calls >>

handleAddScene ==
  /\ videoType = "storyboard"
  /\ Len(scenes) < MaxUIScenes
  /\ scenes' = Append(scenes, << >>)
  /\ UNCHANGED << explainer, appVars, pageVars, isGenerating, imageFile, selectedStyle,
                  promptFormat, genVisualStoryboard, logoFile, channelName,
                  videoTopic, runs, calls >>

\* xs.filter((_, i) => i !== index), index counted from 1
RemoveAt(xs, index) ==
  [k \in 1..(Len(xs) - (IF index \in 1..Len(xs) THEN 1 ELSE 0)) |->
     IF k < index THEN xs[k] ELSE xs[k + 1]]

\* mutant: the list left by the filter is stored as it is
handleDeleteSceneToEmpty(index) ==
  /\ videoType = "storyboard"
  /\ index \in 1..Len(scenes)
  /\ scenes' = RemoveAt(scenes, index)
  /\ genVisualStoryboard' = RemoveAt(genVisualStoryboard, index)
  /\ UNCHANGED << explainer, appVars, pageVars, isGenerating, imageFile, selectedStyle,
                  promptFormat, logoFile, channelName, videoTopic, runs, calls >>

handleDeleteScene(index) ==
  /\ videoType = "storyboard"
  /\ index \in 1..Len(scenes)
  /\ LET newScenes == RemoveAt(scenes, index)
         newVisualStoryboard == RemoveAt(genVisualStoryboard, index)
     IN IF newScenes = << >>
          THEN /\ scenes' = << << >> >>
               /\ genVisualStoryboard' = << >>
          ELSE /\ scenes' = newScenes
               /\ genVisualStoryboard' = newVisualStoryboard
  /\ UNCHANGED << explainer, appVars, pageVars, isGenerating, imageFile, selectedStyle,
                  promptFormat, logoFile, channelName, videoTopic, runs, calls >>

\* StoryboardGenerator.handleFileChange: a reference image is chosen
handleFileChange ==
  /\ videoType = "storyboard"
  /\ ~imageFile
  /\ imageFile' = TRUE
  /\ UNCHANGED << explainer, appVars, pageVars, isGenerating, scenes, selectedStyle,
                  promptFormat, genVisualStoryboard, logoFile, channelName,
                  videoTopic, runs, calls >>

setSelectedStyle(style) ==
  /\ videoType = "storyboard"
  /\ style # selectedStyle
  /\ selectedStyle' = style
  /\ UNCHANGED << explainer, appVars, pageVars, isGenerating, scenes, imageFile,
                  promptFormat, genVisualStoryboard, logoFile, channelName,
                  videoTopic, runs, calls >>

setPromptFormat(fmt) ==
  /\ fmt # promptFormat
  /\ promptFormat' = fmt
  /\ UNCHANGED << explainer, appVars, pageVars, isGenerating, scenes, imageFile,
                  selectedStyle, genVisualStoryboard, logoFile, channelName,
                  videoTopic, runs, calls >>

\* mutant: a scene of white space counts as filled
allScenesEmptyUntrimmed == \A i \in 1..Len(scenes) : scenes[i] = << >>

allScenesEmpty == \A i \in 1..Len(scenes) : Trim(scenes[i]) = << >>

\* StoryboardGenerator.handleGenerateStoryboard, from the click on the
\* generate button to the await
GenerateStoryboard ==
  /\ videoType = "storyboard"
  /\ ~(allScenesEmpty \/ isGenerating)
  /\ Len(runs) < MaxRuns
  /\ masterPrompt' = << >>
  /\ visualStoryboard' = << >>
  /\ genVisualStoryboard' = << >>
  /\ handleGenerateStoryboard("generator", scenes, imageFile, selectedStyle,
                              promptFormat)
  /\ isGenerating' = (runs'[Len(runs')].pc # "rejected")
  /\ UNCHANGED << videoType, scenes, imageFile, selectedStyle, promptFormat,
                  logoFile, channelName, videoTopic >>

\* LogoAnimator.handleFileChange: a logo is chosen
handleLogoFileChange ==
  /\ videoType = "logo"
  /\ ~logoFile
  /\ logoFile' = TRUE
  /\ UNCHANGED << explainer, appVars, pageVars, isGenerating, scenes, imageFile,
                  selectedStyle, promptFormat, genVisualStoryboard, channelName,
                  videoTopic, runs, calls >>

\* LogoAnimator.handleGenerate, from the click to the await: the handler is
\* waiting for the FileReader of handleGenerateLogoPrompt
GenerateLogo ==
  /\ videoType = "logo"
  /\ ~(~logoFile \/ isGenerating)
  /\ Len(runs) < MaxRuns
  /\ isGenerating' = TRUE
  /\ masterPrompt' = << >>
  /\ runs' = Append(runs,
       [NewRun("logo", "generator", << >>, TRUE, NoStyle, promptFormat)
          EXCEPT !.pc = "encode"])
  /\ UNCHANGED << explainer, appVars, visualStoryboard, videoType, scenes, imageFile,
                  selectedStyle, promptFormat, genVisualStoryboard, logoFile,
                  channelName, videoTopic, calls >>

setChannelName(value) ==
  /\ videoType = "introOutro"
  /\ value # channelName
  /\ channelName' = value
  /\ UNCHANGED << explainer, appVars, pageVars, isGenerating, scenes, imageFile,
                  selectedStyle, promptFormat, genVisualStoryboard, logoFile,
                  videoTopic, runs, calls >>

setVideoTopic(value) ==
  /\ videoType = "introOutro"
  /\ value # videoTopic
  /\ videoTopic' = value
  /\ UNCHANGED << explainer, appVars, pageVars, isGenerating, scenes, imageFile,
                  selectedStyle, promptFormat, genVisualStoryboard, logoFile,
                  channelName, runs, calls >>

canGenerate == Trim(channelName) # << >> /\ Trim(videoTopic) # << >>

\* YouTubeIntroGenerator.handleGenerate, from the click to the await
GenerateIntro ==
  /\ videoType = "introOutro"
  /\ ~(~canGenerate \/ isGenerating)
  /\ Len(runs) < MaxRuns
  /\ isGenerating' = TRUE
  /\ masterPrompt' = << >>
  /\ runs' = Append(runs,
       [NewRun("introOutro", "generator", << >>, FALSE, NoStyle, promptFormat)
          EXCEPT !.pc = "text"])
  /\ calls' = Append(calls,
       ContentCall(Len(runs) + 1, "introOutro",
         << TextPart(<< "Channel Name: " >> \o channelName
                       \o << "Video Topic/Theme: " >> \o videoTopic) >>))
  /\ UNCHANGED << explainer, appVars, visualStoryboard, videoType, scenes, imageFile,
                  selectedStyle, promptFormat, genVisualStoryboard, logoFile,
                  channelName, videoTopic >>

NextUI ==
  \/ \E type \in EnabledTypes : SelectVideoType(type)
  \/ \E index \in 1..MaxUIScenes, value \in UITexts : handleSceneChange(index, value)
  \/ handleAddScene
  \/ \E index \in 1..MaxUIScenes : handleDeleteScene(index)
  \/ GenerateStoryboard
  \/ handleLogoFileChange
  \/ GenerateLogo
  \/ \E value \in UITexts : setChannelName(value)
  \/ \E value \in UITexts : setVideoTopic(value)
  \/ GenerateIntro
  \/ \E r \in RunIds, ok \in BOOLEAN : EncodeSettle(r, ok)
  \/ \E r \in RunIds, i \in 1..MaxUIScenes, outcome \in UIImageOutcomes :
       ImageSettle(r, i, outcome)
  \/ \E r \in RunIds, text \in UIResponses : MasterResolve(r, text)
  \/ \E r \in RunIds : MasterReject(r)
  \/ \E r \in RunIds, text \in UIResponses : TextResolve(r, text)
  \/ \E r \in RunIds : TextReject(r)

\* the page driven by the user, with the service answering in any order; the
\* storyboards are generated with the style, format and (absent) reference
\* image the generator starts with
SpecUI == Init /\ [][NextUI]_vars

(***************************************************************************)
(* AnimateImagePage.handleGenerateScene: the example prompt taken from the *)
(* master prompt.  A marker is a match of /--- (?:SCENE|PROMPT) \d+.*---/: *)
(* it starts at a marker token and, .* being greedy and stopping at a      *)
(* newline, runs to the last token of that line that ends with dashes.     *)
(***************************************************************************)
DASHES == "---"
Markers == {"--- SCENE 1 ---", "--- SCENE 2 ---", "--- PROMPT 2: Reveal (2-4s) ---"}
EndsWithDashes(t) == t \in Markers \cup {DASHES}

\* the position of the first marker token of text at or after from, 0 if none
RECURSIVE FirstMarker(_, _)
FirstMarker(text, from) ==
  IF from > Len(text) THEN 0
  ELSE IF text[from] \in Markers THEN from
  ELSE FirstMarker(text, from + 1)

\* the last position of the match that starts at p
MatchEnd(text, p) ==
  CHOOSE q \in p..Len(text) :
    /\ EndsWithDashes(text[q])
    /\ \A k \in p..q : text[k] # NL
    /\ \A k \in (q + 1)..Len(text) :
         EndsWithDashes(text[k]) => \E j \in q..k : text[j] = NL

\* masterPrompt.split(/--- (?:SCENE|PROMPT) \d+.*---/), from position from on
RECURSIVE SplitMarkers(_, _)
SplitMarkers(text, from) ==
  LET p == FirstMarker(text, from)
  IN IF p = 0 THEN << SubSeq(text, from, Len(text)) >>
     ELSE << SubSeq(text, from, p - 1) >>
            \o SplitMarkers(text, MatchEnd(text, p) + 1)

\* parsed.generation_prompt, parsed.scenes: undefined (None) when the value
\* is not an object or has no such member
Member(v, name) == IF v.type = "object" THEN v[name] ELSE None

\* x.length > 0 of an array or a string
HasLength(v) ==
  \/ v.type = "array" /\ Len(v.items) > 0
  \/ v.type = "string" /\ Len(v.text) > 0

\* x[0] of an array or a string
First(v) == IF v.type = "array" THEN v.items[1] ELSE JsonString(<< v.text[1] >>)

\* the lines of handleGenerateScene that read firstScenePrompt from the
\* parsed value; thrown: reading a member of null throws a TypeError
firstScenePrompt(parsed) ==
  IF parsed.type = "array" /\ Len(parsed.items) > 0
    THEN IF parsed.items[1].type = "null"
           THEN [thrown |-> TRUE, value |-> None]
           ELSE [thrown |-> FALSE,
                 value |-> Member(parsed.items[1], "generation_prompt")]
  ELSE LET list == Member(parsed, "scenes")
       IN IF list # None /\ HasLength(list[1])
            THEN IF First(list[1]).type = "null"
                   THEN [thrown |-> TRUE, value |-> None]
                   ELSE [thrown |-> FALSE,
                         value |-> Member(First(list[1]), "generation_prompt")]
            ELSE [thrown |-> FALSE, value |-> None]

\* if (firstScenePrompt): undefined, null and the empty string are falsy
Truthy(value) ==
  /\ value # None
  /\ value[1].type # "null"
  /\ ~(value[1].type = "string" /\ value[1].text = << >>)

\* finalPrompt after the try and its catch, as a JSON value: a string, or
\* whatever generation_prompt held.  block is the index into prompts, 2 for
\* prompts[1] of the code
extracted(prompt, block) ==
  LET parsed == JSONParse(prompt)
      first == IF parsed.ok THEN firstScenePrompt(parsed.val)
               ELSE [thrown |-> TRUE, value |-> None]
  IN IF first.thrown
       THEN LET prompts == SplitMarkers(prompt, 1)
            IN JsonString(IF Len(prompts) > 1 THEN Trim(prompts[block]) ELSE prompt)
       ELSE IF Truthy(first.value) THEN first.value[1] ELSE JsonString(prompt)

\* finalPrompt.trim() of a value that is not a string throws a TypeError, which
\* nothing catches: the handler ends before onAnimate
finalPromptThrows(prompt) == extracted(prompt, 2).type # "string"

\* mutant: the block before the first marker is taken
finalPromptBeforeMarker(prompt) ==
  LET text == extracted(prompt, 1).text
  IN IF Trim(text) = << >> THEN prompt ELSE text

\* finalPrompt of handleGenerateScene, where it is a string
finalPrompt(prompt) ==
  LET text == extracted(prompt, 2).text
  IN IF Trim(text) = << >> THEN prompt ELSE text

(***************************************************************************)
(* The App's views.  The App renders SavingProgressPage while isSaving,    *)
(* else VideoPlayer while playingVideo is set, else GeneratedImageModal    *)
(* while generatedResult is set, else AnimateImagePage (with ErrorModal    *)
(* over it while generationError is set).  When the App stops rendering    *)
(* the page, the page and its generator are unmounted and their state is   *)
(* lost: the next page starts from the initial state, and the setters of   *)
(* the old page no longer act.                                             *)
(***************************************************************************)
PageShown == ~isSaving /\ playingVideo = None /\ generatedResult = None

Unmounted(rs) ==
  [r \in DOMAIN rs |-> [rs[r] EXCEPT !.callerMounted = FALSE, !.pageMounted = FALSE]]

\* the page and its generator as they are when next mounted
PageUnmounts ==
  /\ masterPrompt' = << >>
  /\ visualStoryboard' = << >>
  /\ videoType' = "storyboard"
  /\ isGenerating' = FALSE
  /\ scenes' = << << >> >>
  /\ imageFile' = FALSE
  /\ selectedStyle' = NoStyle
  /\ promptFormat' = "classic"
  /\ genVisualStoryboard' = << >>
  /\ logoFile' = FALSE
  /\ channelName' = << >>
  /\ videoTopic' = << >>

\* the textarea of the output section: onChange
setMasterPrompt(value) ==
  /\ value # masterPrompt
  /\ masterPrompt' = value
  /\ UNCHANGED << explainer, appVars, visualStoryboard, videoType, genVars, runs, calls >>

PreviewFailure ==
  << "Image generation failed.",
     "Please check your API key or try a different prompt." >>

\* mutant: the preview starts without clearing the error
handleAnimateKeepsError(prompt) ==
  /\ isSaving' = TRUE
  /\ runs' = Append(Unmounted(runs),
       [NewRun("preview", "direct", << >>, FALSE, NoStyle, "classic")
          EXCEPT !.pc = "image", !.prompt = prompt,
                 !.masterText = Some(masterPrompt)])
  /\ calls' = Append(calls, [ImageCall(Len(runs) + 1, 0, prompt, "16:9")
                               EXCEPT !.purpose = "preview"])
  /\ UNCHANGED << explainer, generationError, playingVideo, generatedResult >>

\* App.handleAnimate, from the call to the await in generateImage
handleAnimate(prompt) ==
  /\ isSaving' = TRUE
  /\ generationError' = None
  /\ runs' = Append(Unmounted(runs),
       [NewRun("preview", "direct", << >>, FALSE, NoStyle, "classic")
          EXCEPT !.pc = "image", !.prompt = prompt,
                 !.masterText = Some(masterPrompt)])
  /\ calls' = Append(calls, [ImageCall(Len(runs) + 1, 0, prompt, "16:9")
                               EXCEPT !.purpose = "preview"])
  /\ UNCHANGED << explainer, playingVideo, generatedResult >>

\* AnimateImagePage.handleGenerateScene: the click on Generate Example Scene.
\* Where finalPrompt.trim() throws, the handler ends without calling onAnimate
\* and nothing has changed.
handleGenerateScene ==
  /\ videoType # "storyboard"
  /\ masterPrompt # << >>
  /\ Len(runs) < MaxRuns
  /\ IF finalPromptThrows(masterPrompt)
       THEN UNCHANGED vars
       ELSE handleAnimate(finalPrompt(masterPrompt)) /\ PageUnmounts

\* mutant: isSaving is cleared after the image is stored, not in a finally
PreviewSettleNoFinally(r, outcome) ==
  /\ runs[r].kind = "preview"
  /\ runs[r].pc = "image"
  /\ LET call == CHOOSE c \in 1..Len(calls) : calls[c].run = r
         settled == generateImageResult(outcome, call)
     IN /\ calls' = [calls EXCEPT ![call].answer = outcome]
        /\ IF settled.status = "fulfilled" /\ settled.value # None
             THEN /\ generatedResult' =
                       Some([imageSrc |-> settled.value[1], prompt |-> runs[r].prompt])
                  /\ runs' = [runs EXCEPT ![r].pc = "returned"]
                  /\ isSaving' = FALSE
                  /\ UNCHANGED generationError
             ELSE /\ generationError' = Some(PreviewFailure)
                  /\ runs' = [runs EXCEPT ![r].pc = "rejected"]
                  /\ UNCHANGED << generatedResult, isSaving >>
  /\ UNCHANGED << explainer, playingVideo, pageVars, genVars >>

\* App.handleAnimate, from the await to the end: generateImage has settled
PreviewSettle(r, outcome) ==
  /\ runs[r].kind = "preview"
  /\ runs[r].pc = "image"
  /\ LET call == CHOOSE c \in 1..Len(calls) : calls[c].run = r
         settled == generateImageResult(outcome, call)
     IN /\ calls' = [calls EXCEPT ![call].answer = outcome]
        /\ IF settled.status = "fulfilled" /\ settled.value # None
             THEN /\ generatedResult' =
                       Some([imageSrc |-> settled.value[1], prompt |-> runs[r].prompt])
                  /\ runs' = [runs EXCEPT ![r].pc = "returned"]
                  /\ UNCHANGED generationError
             ELSE /\ generationError' = Some(PreviewFailure)
                  /\ runs' = [runs EXCEPT ![r].pc = "rejected"]
                  /\ UNCHANGED generatedResult
  /\ isSaving' = FALSE
  /\ UNCHANGED << explainer, playingVideo, pageVars, genVars >>

GalleryVideos == {"noir-thriller-1"}

\* AnimateImagePage.handlePlayGalleryVideo: onPlayVideo is setPlayingVideo
handlePlayGalleryVideo(video) ==
  /\ playingVideo' = Some(video)
  /\ runs' = Unmounted(runs)
  /\ PageUnmounts
  /\ UNCHANGED << explainer, generationError, isSaving, generatedResult,
                  calls >>

\* App.handleClosePlayer
handleClosePlayer ==
  /\ ~isSaving /\ playingVideo # None
  /\ playingVideo' = None
  /\ UNCHANGED << explainer, generationError, isSaving, generatedResult,
                  pageVars, genVars,
                  runs, calls >>

\* GeneratedImageModal onClose
closeGeneratedImage ==
  /\ ~isSaving /\ playingVideo = None /\ generatedResult # None
  /\ generatedResult' = None
  /\ UNCHANGED << explainer, generationError, isSaving, playingVideo,
                  pageVars, genVars,
                  runs, calls >>

\* ErrorModal onClose
closeError ==
  /\ PageShown /\ generationError # None
  /\ generationError' = None
  /\ UNCHANGED << explainer, viewVars, pageVars, genVars, runs, calls >>

\* the page, driven by the user while the App renders it; the player and the
\* result view, closed by the user; the service and the FileReader answering
NextApp ==
  \/ PageShown /\ \E type \in EnabledTypes : SelectVideoType(type)
  \/ PageShown /\ \E index \in 1..MaxUIScenes, value \in UITexts :
                    handleSceneChange(index, value)
  \/ PageShown /\ GenerateStoryboard
  \/ PageShown /\ handleLogoFileChange
  \/ PageShown /\ GenerateLogo
  \/ PageShown /\ \E value \in UITexts : setChannelName(value)
  \/ PageShown /\ \E value \in UITexts : setVideoTopic(value)
  \/ PageShown /\ GenerateIntro
  \/ PageShown /\ \E value \in UITexts : setMasterPrompt(value)
  \/ PageShown /\ handleGenerateScene
  \/ PageShown /\ \E video \in GalleryVideos : handlePlayGalleryVideo(video)
  \/ closeError
  \/ handleClosePlayer
  \/ closeGeneratedImage
  \/ \E r \in RunIds, ok \in BOOLEAN : EncodeSettle(r, ok)
  \/ \E r \in RunIds, i \in 1..MaxUIScenes, outcome \in UIImageOutcomes :
       ImageSettle(r, i, outcome)
  \/ \E r \in RunIds, text \in UIResponses : MasterResolve(r, text)
  \/ \E r \in RunIds : MasterReject(r)
  \/ \E r \in RunIds, text \in UIResponses : TextResolve(r, text)
  \/ \E r \in RunIds : TextReject(r)
  \/ \E r \in RunIds, outcome \in ImageOutcomes : PreviewSettle(r, outcome)

\* the App with every view; the storyboard keeps the one scene it starts with
SpecApp == Init /\ [][NextApp]_vars

\* the FileReader or the service answers run r: one of the steps that end an
\* await of the run
Answered(r) ==
  /\ r \in RunIds
  /\ \/ \E ok \in BOOLEAN : EncodeSettle(r, ok)
     \/ \E i \in 1..MaxUIScenes, outcome \in UIImageOutcomes :
          ImageSettle(r, i, outcome)
     \/ \E text \in UIResponses : MasterResolve(r, text)
     \/ MasterReject(r)
     \/ \E text \in UIResponses : TextResolve(r, text)
     \/ TextReject(r)
     \/ \E outcome \in ImageOutcomes : PreviewSettle(r, outcome)

\* the App with every view, where every file read and every service call that
\* has been issued is eventually answered
SpecAppAnswered ==
  Init /\ [][NextApp]_vars /\ \A r \in 1..MaxRuns : WF_vars(Answered(r))

(***************************************************************************)
(* Each of the App's four generation handlers called once, with any        *)
(* arguments, and followed to its end.                                     *)
(***************************************************************************)
PreviewPrompts == { << "a" >>, << "--- SCENE 1 ---", NL, "x" >> }

\* handleGenerateLogoPrompt: up to the await of the FileReader
handleGenerateLogoPrompt(fmt) ==
  /\ runs' = Append(runs, [NewRun("logo", "direct", << >>, TRUE, NoStyle, fmt)
                             EXCEPT !.pc = "encode"])
  /\ UNCHANGED << explainer, appVars, pageVars, genVars, calls >>

CallLogoPrompt(fmt) ==
  /\ runs = << >>
  /\ handleGenerateLogoPrompt(fmt)

\* handleGenerateYouTubeIntroPrompt: up to the await of generateContent
CallIntroPrompt(name, topic, fmt) ==
  /\ runs = << >>
  /\ runs' = << [NewRun("introOutro", "direct", << >>, FALSE, NoStyle, fmt)
                   EXCEPT !.pc = "text"] >>
  /\ calls' = Append(calls,
       ContentCall(1, "introOutro",
         << TextPart(<< "Channel Name: " >> \o name
                       \o << "Video Topic/Theme: " >> \o topic) >>))
  /\ UNCHANGED << explainer, appVars, pageVars, genVars >>

CallAnimate(prompt) ==
  /\ runs = << >>
  /\ handleAnimate(prompt)
  /\ PageUnmounts

NextHandlers ==
  \/ \E sc \in SeqsUpTo(SceneTexts, MaxScenes), img \in BOOLEAN,
        style \in StyleNames, fmt \in Formats :
       CallStoryboard(sc, img, style, fmt)
  \/ \E fmt \in Formats : CallLogoPrompt(fmt)
  \/ \E name \in UITexts, topic \in UITexts, fmt \in Formats :
       CallIntroPrompt(name, topic, fmt)
  \/ \E prompt \in PreviewPrompts : CallAnimate(prompt)
  \/ \E r \in RunIds, ok \in BOOLEAN : EncodeSettle(r, ok)
  \/ \E r \in RunIds, ok \in BOOLEAN : StyleSettle(r, ok)
  \/ \E r \in RunIds, i \in 1..MaxScenes, outcome \in ImageOutcomes :
       ImageSettle(r, i, outcome)
  \/ \E r \in RunIds, text \in SampleResponses : MasterResolve(r, text)
  \/ \E r \in RunIds : MasterReject(r)
  \/ \E r \in RunIds, text \in SampleResponses : TextResolve(r, text)
  \/ \E r \in RunIds : TextReject(r)
  \/ \E r \in RunIds, outcome \in ImageOutcomes : PreviewSettle(r, outcome)

SpecHandlers == Init /\ [][NextHandlers]_vars

(***************************************************************************)
(* The two handlers that read an image file, each called once: the         *)
(* storyboard with a reference image and one scene, and the logo recipe.   *)
(***************************************************************************)
Started(kind) == \E r \in RunIds : runs[r].kind = kind

NextEncode ==
  \/ \E style \in StyleNames, fmt \in Formats :
       /\ ~Started("storyboard")
       /\ handleGenerateStoryboard("direct", << << "b" >> >>, TRUE, style, fmt)
       /\ UNCHANGED << pageVars, genVars >>
  \/ \E fmt \in Formats : ~Started("logo") /\ handleGenerateLogoPrompt(fmt)
  \/ \E r \in RunIds, ok \in BOOLEAN : EncodeSettle(r, ok)
  \/ \E r \in RunIds, ok \in BOOLEAN : StyleSettle(r, ok)
  \/ \E r \in RunIds, outcome \in ImageOutcomes : ImageSettle(r, 1, outcome)
  \/ \E r \in RunIds, text \in SampleResponses : MasterResolve(r, text)
  \/ \E r \in RunIds : MasterReject(r)
  \/ \E r \in RunIds, text \in SampleResponses : TextResolve(r, text)
  \/ \E r \in RunIds : TextReject(r)

SpecEncode == Init /\ [][NextEncode]_vars

(***************************************************************************)
(* The example scene: any text of at most MaxPromptLen tokens is put into  *)
(* the master-prompt textarea of a page that has generated nothing, and    *)
(* Generate Example Scene is pressed.                                      *)
(***************************************************************************)
PromptTokens == {"--- SCENE 1 ---", "--- PROMPT 2: Reveal (2-4s) ---", DASHES, NL, DIGIT}

NextScene ==
  \/ PageShown /\ \E type \in EnabledTypes : SelectVideoType(type)
  \/ /\ PageShown
     /\ runs = << >> /\ masterPrompt = << >>
     /\ \E value \in SeqsUpTo(PromptTokens, MaxPromptLen) : setMasterPrompt(value)
  \/ PageShown /\ handleGenerateScene
  \/ \E r \in RunIds, outcome \in ImageOutcomes : PreviewSettle(r, outcome)
  \/ closeGeneratedImage
  \/ closeError

SpecScene == Init /\ [][NextScene]_vars

(***************************************************************************)
(* The example scene of a master prompt that is JSON, or nearly: one of    *)
(* the sample texts below is put into the master-prompt textarea and       *)
(* Generate Example Scene is pressed.                                      *)
(***************************************************************************)
JsonPrompts ==
  { << LBRACKET, SHOT_P, RBRACKET >>,
    << LBRACKET, SHOT_P, COMMA, SHOT_BLANK, RBRACKET >>,
    << LBRACKET, SHOT_BLANK, RBRACKET >>,
    << LBRACKET, SHOT_BARE, RBRACKET >>,
    << LBRACKET, SHOT_NUMBER, RBRACKET >>,
    << LBRACKET, RBRACKET >>,
    << LBRACKET, NULLWORD, RBRACKET >>,
    << LBRACKET, NULLWORD, COMMA, QUOTE, "--- SCENE 1 ---", QUOTE, RBRACKET >>,
    << WRAPPER_Q >>,
    << WRAPPER_EMPTY >>,
    << SHOT_P >>,
    << NULLWORD >>,
    << DIGIT >>,
    << LBRACKET, SHOT_P >>,
    << "--- SCENE 1 ---", NL, SHOT_P, NL, "--- SCENE 2 ---", "y" >>,
    << SP >> }

NextSceneJson ==
  \/ PageShown /\ \E type \in EnabledTypes : SelectVideoType(type)
  \/ /\ PageShown
     /\ runs = << >> /\ masterPrompt = << >>
     /\ \E value \in JsonPrompts : setMasterPrompt(value)
  \/ PageShown /\ handleGenerateScene
  \/ \E r \in RunIds, outcome \in ImageOutcomes : PreviewSettle(r, outcome)
  \/ closeGeneratedImage
  \/ closeError

SpecSceneJson == Init /\ [][NextSceneJson]_vars

(***************************************************************************)
(* ExplainerVideoGenerator: the topic, the list of key points and the      *)
(* Generate button.  The component keeps promptFormat as state without a   *)
(* setter; its format selector is commented out.  The prop it calls,       *)
(* onGenerateExplainerVideoPrompt, is recorded by its arguments and        *)
(* answered by resolving or rejecting.                                     *)
(***************************************************************************)
MaxKeyPoints == 3

KeyPointTexts == { << >>, << SP >>, << "a" >>, << SP, "b" >> }

\* the other generators, the page and the App do not move
ExplainerOnly == UNCHANGED << appVars, pageVars, genVars, runs, calls >>

\* onChange of the topic input
setTopic(value) ==
  /\ explainer' = [explainer EXCEPT !.topic = value]
  /\ ExplainerOnly

handleKeyPointChange(index, value) ==
  /\ index \in 1..Len(explainer.keyPoints)
  /\ explainer' = [explainer EXCEPT !.keyPoints[index] = value]
  /\ ExplainerOnly

handleAddKeyPoint ==
  /\ Len(explainer.keyPoints) < MaxKeyPoints
  /\ explainer' = [explainer EXCEPT !.keyPoints = Append(@, << >>)]
  /\ ExplainerOnly

handleDeleteKeyPoint(index) ==
  /\ index \in 1..Len(explainer.keyPoints)
  /\ LET newKeyPoints == RemoveAt(explainer.keyPoints, index)
     IN explainer' = [explainer EXCEPT !.keyPoints =
                        IF Len(newKeyPoints) = 0 THEN << << >> >>
                                                 ELSE newKeyPoints]
  /\ ExplainerOnly

\* mutant: only the key points of length zero are dropped
keyPointsUntrimmed(points) == SelectSeq(points, LAMBDA k : k # << >>)

\* keyPoints.filter((k) => k.trim())
keyPointsFilled(points) == SelectSeq(points, LAMBDA k : Trim(k) # << >>)

explainerCanGenerate == Trim(explainer.topic) # << >>

\* ExplainerVideoGenerator.handleGenerate, from the click to the await
GenerateExplainer ==
  /\ explainerCanGenerate /\ ~explainer.isGenerating
  /\ Len(explainer.requests) < MaxRuns
  /\ explainer' = [explainer EXCEPT
         !.isGenerating = TRUE,
         !.requests = Append(@, [topic |-> explainer.topic,
                                 keyPoints |-> keyPointsFilled(explainer.keyPoints),
                                 promptFormat |-> explainer.promptFormat,
                                 answer |-> "pending"])]
  /\ ExplainerOnly

\* ExplainerVideoGenerator.handleGenerate, from the await to the end: the
\* promise of the prop resolves or rejects
ExplainerSettle(q, ok) ==
  /\ q \in 1..Len(explainer.requests)
  /\ explainer.requests[q].answer = "pending"
  /\ explainer' = [explainer EXCEPT
         !.isGenerating = FALSE,
         !.requests[q].answer = IF ok THEN "resolved" ELSE "rejected"]
  /\ ExplainerOnly

NextExplainer ==
  \/ \E value \in UITexts : setTopic(value)
  \/ \E index \in 1..MaxKeyPoints, value \in KeyPointTexts :
       handleKeyPointChange(index, value)
  \/ handleAddKeyPoint
  \/ \E index \in 1..MaxKeyPoints : handleDeleteKeyPoint(index)
  \/ GenerateExplainer
  \/ \E q \in 1..MaxRuns, ok \in BOOLEAN : ExplainerSettle(q, ok)

SpecExplainer == Init /\ [][NextExplainer]_vars

(***************************************************************************)
(* The two editable lists, the scenes of the StoryboardGenerator and the   *)
(* key points of the ExplainerVideoGenerator, edited in any order while    *)
(* storyboards are generated.                                              *)
(***************************************************************************)
NextLists ==
  \/ \E index \in 1..MaxUIScenes, value \in UITexts : handleSceneChange(index, value)
  \/ handleAddScene
  \/ \E index \in 1..MaxUIScenes : handleDeleteScene(index)
  \/ GenerateStoryboard
  \/ \E r \in RunIds, i \in 1..MaxUIScenes, outcome \in UIImageOutcomes :
       ImageSettle(r, i, outcome)
  \/ \E r \in RunIds : MasterResolve(r, ClassicResponse)
  \/ \E r \in RunIds : MasterReject(r)
  \/ \E index \in 1..MaxKeyPoints, value \in UITexts :
       handleKeyPointChange(index, value)
  \/ handleAddKeyPoint
  \/ \E index \in 1..MaxKeyPoints : handleDeleteKeyPoint(index)

SpecLists == Init /\ [][NextLists]_vars

(***************************************************************************)
(* The generate buttons of the three generators: the page driven with      *)
(* fields that are empty, hold only white space, or hold text.             *)
(***************************************************************************)
FieldTexts == { << >>, << SP >>, << "a" >> }

NextStart ==
  \/ \E type \in EnabledTypes : SelectVideoType(type)
  \/ \E index \in 1..MaxUIScenes, value \in FieldTexts :
       handleSceneChange(index, value)
  \/ handleAddScene
  \/ \E index \in 1..MaxUIScenes : handleDeleteScene(index)
  \/ GenerateStoryboard
  \/ handleLogoFileChange
  \/ GenerateLogo
  \/ \E value \in FieldTexts : setChannelName(value)
  \/ \E value \in FieldTexts : setVideoTopic(value)
  \/ GenerateIntro
  \/ \E r \in RunIds, ok \in BOOLEAN : EncodeSettle(r, ok)
  \/ \E r \in RunIds, i \in 1..MaxUIScenes, outcome \in UIImageOutcomes :
       ImageSettle(r, i, outcome)
  \/ \E r \in RunIds : MasterResolve(r, ClassicResponse)
  \/ \E r \in RunIds : MasterReject(r)
  \/ \E r \in RunIds : TextResolve(r, ClassicResponse)
  \/ \E r \in RunIds : TextReject(r)

SpecStart == Init /\ [][NextStart]_vars

(***************************************************************************)
(* The two handlers that write generationError, handleGenerateStoryboard   *)
(* and handleAnimate, called one after the other or while the earlier call *)
(* is in flight, and the error overlay closed in between.                  *)
(***************************************************************************)
ErrorScenes ==
  { << << >> >>, << << SP >>, << >> >>, << << "b" >> >>,
    << << "b" >>, << SP, "a" >> >> }

NextErrors ==
  \/ \E sc \in ErrorScenes, img \in BOOLEAN :
       /\ Len(runs) < MaxRuns
       /\ handleGenerateStoryboard("direct", sc, img, NoStyle, "classic")
       /\ UNCHANGED << pageVars, genVars >>
  \/ \E prompt \in PreviewPrompts :
       Len(runs) < MaxRuns /\ handleAnimate(prompt) /\ PageUnmounts
  \/ closeError
  \/ closeGeneratedImage
  \/ \E r \in RunIds, ok \in BOOLEAN : EncodeSettle(r, ok)
  \/ \E r \in RunIds, ok \in BOOLEAN : StyleSettle(r, ok)
  \/ \E r \in RunIds, i \in 1..2, outcome \in UIImageOutcomes :
       ImageSettle(r, i, outcome)
  \/ \E r \in RunIds : MasterResolve(r, ClassicResponse)
  \/ \E r \in RunIds : MasterReject(r)
  \/ \E r \in RunIds, outcome \in UIImageOutcomes : PreviewSettle(r, outcome)

SpecErrors == Init /\ [][NextErrors]_vars

(***************************************************************************)
(* The post-processing of the master response: a storyboard call with      *)
(* promptFormat = 'json' whose master request is answered with any text of *)
(* at most MaxRespLen tokens.                                              *)
(***************************************************************************)
ResponseTokens == {FENCE, JSONWORD, NL, LBRACKET, RBRACKET, COMMA, QUOTE, DIGIT}

NextJson ==
  \/ CallStoryboard(<< << "b" >> >>, FALSE, NoStyle, "json")
  \/ \E r \in RunIds, outcome \in ImageOutcomes : ImageSettle(r, 1, outcome)
  \/ \E r \in RunIds :
       /\ runs[r].pc = "master"
       /\ \E text \in SeqsUpTo(ResponseTokens, MaxRespLen) : MasterResolve(r, text)

SpecJson == Init /\ [][NextJson]_vars

(***************************************************************************)
(* Properties.                                                             *)
(***************************************************************************)
\* every character of the text is white space: the text is empty after trimming
Blank(text) == \A k \in 1..Len(text) : text[k] \in {SP, NL}
Holds(text, token) == \E k \in 1..Len(text) : text[k] = token
\* the requests run r has sent for one purpose, as positions in the call log
CallsOf(r, purpose) ==
  { c \in 1..Len(calls) : calls[c].run = r /\ calls[c].purpose = purpose }
MasterIssued(r) == CallsOf(r, "master") # {}
Storyboards == { r \in RunIds : runs[r].kind = "storyboard" }

\* C1: a rejected per-scene image call never aborts the run or changes another
\* scene's entry: a run is rejected only by validation or after its master
\* request was sent, it does not wait once every image call has settled, and
\* from the master request on sceneImages is null exactly at the empty scenes
\* and the rejected calls, and holds the image of the scene's own call elsewhere
ImageFailureIsolated ==
  \A r \in Storyboards :
    LET run == runs[r] IN
    /\ run.pc = "rejected" =>
         \/ \A i \in 1..Len(run.scenes) : Blank(run.scenes[i])
         \/ MasterIssued(r)
    /\ run.pc = "images" =>
         \E i \in 1..Len(run.imagePromises) : run.imagePromises[i].status = "pending"
    /\ MasterIssued(r) =>
         /\ Len(run.sceneImages) = Len(run.scenes)
         /\ \A i \in 1..Len(run.scenes) :
              IF Blank(run.scenes[i]) \/ run.imagePromises[i].status = "rejected"
                THEN run.sceneImages[i] = None
                ELSE \E c \in CallsOf(r, "scene") :
                       /\ calls[c].scene = i
                       /\ run.sceneImages[i] = Some(c)
    /\ run.pc = "returned" => run.result[1].sceneImages = run.sceneImages

\* C1 witness: a run returned with one scene's image call rejected and another
\* scene's image in place
ImageFailureIsolatedWitness ==
  \E r \in Storyboards :
    /\ runs[r].pc = "returned"
    /\ \E i, j \in 1..Len(runs[r].scenes) :
         /\ i < j
         /\ runs[r].imagePromises[i].status = "rejected"
         /\ runs[r].imagePromises[j].status = "fulfilled"
         /\ runs[r].result[1].sceneImages[i] = None
         /\ runs[r].result[1].sceneImages[j] # None

\* C2: a returned sceneImages is as long as scenes, and entry i is null or the
\* image of the generateImages request that was sent for scenes[i]
SceneIndexAligned ==
  \A r \in Storyboards :
    runs[r].pc = "returned" =>
      LET images == runs[r].result[1].sceneImages IN
      /\ Len(images) = Len(runs[r].scenes)
      /\ \A i \in 1..Len(images) :
           \/ images[i] = None
           \/ \E c \in 1..Len(calls) :
                /\ images[i] = Some(c)
                /\ calls[c].op = "generateImages"
                /\ calls[c].run = r
                /\ calls[c].scene = i

\* C2 witness: a run returned with three scenes, the middle one without an
\* image and the outer ones with theirs
SceneIndexAlignedWitness ==
  \E r \in Storyboards :
    /\ runs[r].pc = "returned"
    /\ Len(runs[r].scenes) = 3
    /\ runs[r].result[1].sceneImages[1] # None
    /\ runs[r].result[1].sceneImages[2] = None
    /\ runs[r].result[1].sceneImages[3] # None

\* C3: a call whose scenes are all empty after trimming is rejected with the
\* 'add at least one scene' message, has sent no request, and generationError
\* is that one line
EmptyStoryboardRejected ==
  \A r \in Storyboards :
    (\A i \in 1..Len(runs[r].scenes) : Blank(runs[r].scenes[i])) =>
      /\ runs[r].pc = "rejected"
      /\ runs[r].thrown = Some(AddSceneMsg)
      /\ runs[r].thrown # Some(GenericError)
      /\ \A c \in 1..Len(calls) : calls[c].run # r
      /\ generationError = Some(<< AddSceneMsg >>)

\* C3 witness: a rejected call with a scene that is white space only
EmptyStoryboardRejectedWitness ==
  \E r \in Storyboards :
    /\ runs[r].pc = "rejected"
    /\ Len(runs[r].scenes) = 2
    /\ runs[r].scenes[1] = << SP >>
    /\ runs[r].scenes[2] = << >>
    /\ calls = << >>

\* C5: after a rejected style analysis the run goes on (it is rejected only
\* after its master request), has sent one style request, and neither a scene
\* prompt nor the style block of the master request holds the image-derived
\* keywords, while both hold the selected style's name when one is selected
StyleFailureTolerated ==
  \A r \in Storyboards :
    runs[r].styleAnalysis = "rejected" =>
      /\ runs[r].pc = "rejected" => MasterIssued(r)
      /\ Cardinality(CallsOf(r, "style")) = 1
      /\ CallsOf(r, "scene") # {}
      /\ \A c \in CallsOf(r, "scene") :
           /\ \A k \in 1..Len(StyleKeywords) : ~Holds(calls[c].prompt, StyleKeywords[k])
           /\ runs[r].selectedStyle # NoStyle
                => Holds(calls[c].prompt, runs[r].selectedStyle)
           /\ runs[r].selectedStyle = NoStyle
                => calls[c].prompt[1] = "cinematic shot depicting "
      /\ \A c \in CallsOf(r, "master") :
           /\ \A k \in 1..Len(StyleKeywords) :
                ~Holds(calls[c].parts[2].text, StyleKeywords[k])
           /\ ~Holds(calls[c].parts[2].text, "Reference Image Style: ")
           /\ runs[r].selectedStyle # NoStyle
                => Holds(calls[c].parts[2].text, runs[r].selectedStyle)

\* C5 witness: a run with a named style returned after its style analysis was
\* rejected
StyleFailureToleratedWitness ==
  \E r \in Storyboards :
    /\ runs[r].styleAnalysis = "rejected"
    /\ runs[r].imageFile
    /\ runs[r].selectedStyle # NoStyle
    /\ runs[r].pc = "returned"

\* C6 as claimed: a returned run has sent one generateImages request per scene
\* of the array, as many as sceneImages is long
OneImageCallPerScene ==
  \A r \in Storyboards :
    runs[r].pc = "returned" =>
      /\ Cardinality(CallsOf(r, "scene")) = Len(runs[r].scenes)
      /\ Cardinality(CallsOf(r, "scene")) = Len(runs[r].result[1].sceneImages)

\* C6 amended: once a run has passed style resolution it has sent exactly one
\* generateImages request, for one image, per scene that is not empty after
\* trimming and none for an empty scene, and a returned sceneImages is as long
\* as the scene array
OneImageCallPerNonEmptyScene ==
  \A r \in Storyboards :
    /\ runs[r].pc \in {"images", "master", "returned"} =>
         \A i \in 1..Len(runs[r].scenes) :
           Cardinality({ c \in CallsOf(r, "scene") : calls[c].scene = i })
             = IF Blank(runs[r].scenes[i]) THEN 0 ELSE 1
    /\ \A c \in CallsOf(r, "scene") :
         /\ calls[c].scene \in 1..Len(runs[r].scenes)
         /\ calls[c].numberOfImages = 1
    /\ runs[r].pc = "returned" =>
         Len(runs[r].result[1].sceneImages) = Len(runs[r].scenes)

\* C6 witness: a returned run whose array holds an empty and a non-empty scene
OneImageCallPerNonEmptySceneWitness ==
  \E r \in Storyboards :
    /\ runs[r].pc = "returned"
    /\ Len(runs[r].scenes) = 2
    /\ Blank(runs[r].scenes[1])
    /\ ~Blank(runs[r].scenes[2])
    /\ Cardinality(CallsOf(r, "scene")) = 1

\* the place of scene i's text part among the parts of the master request
RECURSIVE PartPosition(_, _, _)
PartPosition(sc, images, i) ==
  IF i <= 1 THEN 3
  ELSE PartPosition(sc, images, i - 1)
         + (IF Blank(sc[i - 1]) THEN 0
            ELSE IF images[i - 1] = None THEN 1 ELSE 2)

\* C7: the parts of the master request are the framing text, the style
\* guidance, then per non-empty scene in array order its text part, directly
\* followed by its image part iff the scene has an image; nothing else
MasterPartsInOrder ==
  \A r \in Storyboards : \A c \in CallsOf(r, "master") :
    LET parts == calls[c].parts
        sc == runs[r].scenes
        images == runs[r].sceneImages
        texts == { i \in 1..Len(sc) : ~Blank(sc[i]) }
        withImage == { i \in 1..Len(sc) : images[i] # None }
    IN /\ Len(parts) = 2 + Cardinality(texts) + Cardinality(withImage)
       /\ parts[1] = TextPart(<< FramingText >>)
       /\ parts[2] = TextPart(<< "--- STYLE GUIDANCE ---", NL >> \o runs[r].styleGuide)
       /\ \A i \in texts :
            LET p == PartPosition(sc, images, i) IN
            /\ parts[p] = TextPart(<< "Scene ", ToString(i), ": " >> \o Trim(sc[i]))
            /\ IF images[i] # None
                 THEN parts[p + 1] = ImagePart(images[i][1])
                 ELSE p + 1 <= Len(parts) => parts[p + 1].inlineData = None

\* C7 witness: a master request for three scenes, the first empty, the second
\* without an image, the third with one: four parts, the last an image
MasterPartsInOrderWitness ==
  \E r \in Storyboards : \E c \in CallsOf(r, "master") :
    /\ Len(runs[r].scenes) = 3
    /\ Blank(runs[r].scenes[1])
    /\ ~Blank(runs[r].scenes[2]) /\ runs[r].sceneImages[2] = None
    /\ ~Blank(runs[r].scenes[3]) /\ runs[r].sceneImages[3] # None
    /\ Len(calls[c].parts) = 5
    /\ calls[c].parts[5].inlineData # None

\* the text without code-fence markers and white space
Unfenced(text) == SelectSeq(text, LAMBDA t : t \notin {FENCE, JSONWORD, SP, NL})
JsonReturned ==
  { r \in Storyboards : runs[r].pc = "returned" /\ runs[r].promptFormat = "json" }

\* C8 as claimed: with promptFormat = json, a response that is valid JSON comes
\* out as text that parses to the value the response parses to, and that
\* post-processing leaves unchanged; a response that is no JSON, fenced or not,
\* comes out as the raw text less fence markers and surrounding white space;
\* in both cases the run returns and generationError is not set
JsonPostProcessRoundTrip ==
  \A r \in RunIds :
    runs[r].masterText # None /\ runs[r].promptFormat = "json" =>
      LET text == runs[r].masterText[1] IN
      /\ runs[r].pc = "returned"
      /\ generationError = None
      /\ JSONParse(text).ok =>
           LET prompts == runs[r].result[1].prompts IN
           /\ JSONParse(prompts).ok
           /\ JSONParse(prompts).val = JSONParse(text).val
           /\ PostProcess(prompts, "json") = prompts
      /\ ~JSONParse(text).ok /\ ~JSONParse(CleanMarkdown(text)).ok =>
           /\ Unfenced(runs[r].result[1].prompts) = Unfenced(text)
           /\ runs[r].result[1].prompts = Trim(runs[r].result[1].prompts)

\* the text is JSON between an opening fence (with or without the word json and
\* a newline) and a closing fence, which white space may follow
FencedJson(text, i, j) ==
  /\ 1 <= i /\ i < j /\ j <= Len(text)
  /\ SubSeq(text, 1, i) \in { << FENCE >>, << FENCE, NL >>,
                              << FENCE, JSONWORD >>, << FENCE, JSONWORD, NL >> }
  /\ text[j] = FENCE
  /\ Blank(SubSeq(text, j + 1, Len(text)))
  /\ JSONParse(SubSeq(text, i + 1, j - 1)).ok

\* C9 as claimed: with promptFormat = json, a response that is valid JSON
\* inside code-fence markup comes out as that JSON pretty-printed
FencedJsonUnwrapped ==
  \A r \in JsonReturned :
    LET text == runs[r].masterText[1] IN
    \A i, j \in 1..Len(text) :
      FencedJson(text, i, j) =>
        runs[r].result[1].prompts
          = Stringify(JSONParse(SubSeq(text, i + 1, j - 1)).val, 0)

\* the run the mounted generator started last: what the page shows is its doing
\* until the user generates again or switches the video type
Current(r) ==
  /\ r = Len(runs)
  /\ runs[r].caller = "generator"
  /\ runs[r].callerMounted

\* C4 as claimed: once the master-synthesis call of a storyboard run has
\* rejected, the run has no result (no prompt text, no scene image), has thrown
\* the generic error, generationError is the two-line storyboard-failure list,
\* and the master prompt and the visual storyboard of the generator that
\* started the run are empty
MasterFailureFatal ==
  \A r \in Storyboards :
    runs[r].pc = "rejected" /\ MasterIssued(r) =>
      /\ runs[r].result = None
      /\ runs[r].thrown = Some(GenericError)
      /\ Current(r) =>
           /\ generationError = Some(StoryboardFailure)
           /\ genVisualStoryboard = << >>
           /\ masterPrompt = << >>
           /\ visualStoryboard = << >>

\* C10 as claimed: the step in which a run ends whose generator was unmounted
\* by a switch of the video type writes neither masterPrompt nor
\* visualStoryboard
AbandonedResultDiscarded ==
  [][\A r \in RunIds :
       ( /\ runs[r].caller = "generator"
         /\ ~runs[r].callerMounted
         /\ runs[r].pc \notin {"returned", "rejected"}
         /\ r \in DOMAIN runs'
         /\ runs'[r].pc \in {"returned", "rejected"} )
       => /\ masterPrompt' = masterPrompt
          /\ visualStoryboard' = visualStoryboard]_vars

Previews == { r \in RunIds : runs[r].kind = "preview" }

\* C11 as claimed: a preview run issues one generateImages call, with aspect
\* ratio 16:9, and the step that ends it either stores the image with the
\* submitted prompt in generatedResult, generationError being null, or sets
\* generationError to the two-line preview error and leaves generatedResult;
\* it issues no further call, and isSaving is false after it
PreviewEndsOneWay ==
  [][\A r \in Previews :
       runs[r].pc = "image" /\ runs'[r].pc # "image" =>
         /\ \E c \in 1..Len(calls) :
              /\ CallsOf(r, "preview") = {c}
              /\ calls[c].op = "generateImages"
              /\ calls[c].aspectRatio = "16:9"
              /\ calls[c].prompt = runs[r].prompt
         /\ Len(calls') = Len(calls)
         /\ ~isSaving'
         /\ \/ /\ runs'[r].pc = "returned"
               /\ generatedResult' # None
               /\ generatedResult'[1].prompt = runs[r].prompt
               /\ generationError' = None
            \/ /\ runs'[r].pc = "rejected"
               /\ generationError' = Some(PreviewFailure)
               /\ generatedResult' = generatedResult]_vars

\* C12 as claimed: the step in which a run of any recipe fails leaves
\* generationError a non-empty list of message lines
FailureShown ==
  [][\A r \in RunIds :
       runs[r].pc # "rejected" /\ runs'[r].pc = "rejected" =>
         /\ generationError' # None
         /\ generationError'[1] # << >>]_vars

\* how many of the App's four display states are set
DisplayStates ==
  (IF isSaving THEN 1 ELSE 0) + (IF playingVideo # None THEN 1 ELSE 0)
    + (IF generatedResult # None THEN 1 ELSE 0)
    + (IF generationError # None THEN 1 ELSE 0)

\* C13 as claimed: at most one of isSaving, playingVideo, generatedResult and
\* generationError is set, in every state, also when a request that was in
\* flight completes after the user has moved to another view
DisplayStatesExclusive == DisplayStates <= 1

Purposes == {"style", "master", "logo", "introOutro", "preview"}
CallsOfRun(log, r) == { c \in 1..Len(log) : log[c].run = r }

\* C14: a run issues at most one call for each purpose and at most one image
\* call for each scene; a call once issued stays as it is; and a run that has
\* failed issues no call
NoCallReissued ==
  /\ [](\A r \in RunIds :
          /\ \A purpose \in Purposes : Cardinality(CallsOf(r, purpose)) <= 1
          /\ \A c, d \in CallsOf(r, "scene") :
               calls[c].scene = calls[d].scene => c = d)
  /\ [][/\ Len(calls') >= Len(calls)
        /\ \A c \in 1..Len(calls) :
             [calls'[c] EXCEPT !.answer = calls[c].answer] = calls[c]
        /\ \A r \in RunIds :
             runs[r].pc = "rejected" => CallsOfRun(calls', r) = CallsOfRun(calls, r)]_vars

\* C14 witness: a storyboard run that issued a style, two scene and a master
\* call, one of each, and failed at the last
NoCallReissuedWitness ==
  \E r \in Storyboards :
    /\ runs[r].pc = "rejected"
    /\ Cardinality(CallsOf(r, "style")) = 1
    /\ Cardinality(CallsOf(r, "scene")) = 2
    /\ Cardinality(CallsOf(r, "master")) = 1
    /\ Cardinality(CallsOfRun(calls, r)) = 4

ImageRequests == { c \in 1..Len(calls) : calls[c].op = "generateImages" }

\* C15: every generateImages request asks for one image; the promise of a
\* generateImage call is fulfilled only with the image of an answer that
\* carries bytes, is rejected with NoImagesError when the answer carries
\* none, and with the service's own error, another one, when the request is
\* rejected
OneImageOrExplicitError ==
  /\ NoImagesError # ServiceError
  /\ \A c \in ImageRequests : calls[c].numberOfImages = 1
  /\ \A r \in Storyboards : \A i \in 1..Len(runs[r].imagePromises) :
       LET p == runs[r].imagePromises[i] IN
       p.call # NoCall =>
         /\ p.call \in ImageRequests
         /\ calls[p.call].answer = "pending" <=> p.status = "pending"
         /\ calls[p.call].answer = "bytes" <=>
              p.status = "fulfilled" /\ p.value # None
         /\ calls[p.call].answer = "nobytes" <=>
              p.status = "rejected" /\ p.reason = NoImagesError
         /\ calls[p.call].answer = "reject" <=>
              p.status = "rejected" /\ p.reason = ServiceError
  /\ \A r \in Previews : \A c \in CallsOf(r, "preview") :
       /\ calls[c].answer = "pending" <=> runs[r].pc = "image"
       /\ calls[c].answer = "bytes" <=> runs[r].pc = "returned"

\* C15 witness: a storyboard run holding a promise rejected for missing bytes,
\* one rejected by the service and one fulfilled
OneImageOrExplicitErrorWitness ==
  \E r \in Storyboards : \E i, j, k \in 1..Len(runs[r].imagePromises) :
    /\ runs[r].imagePromises[i].reason = NoImagesError
    /\ calls[runs[r].imagePromises[i].call].answer = "nobytes"
    /\ runs[r].imagePromises[j].reason = ServiceError
    /\ runs[r].imagePromises[k].status = "fulfilled"
    /\ runs[r].imagePromises[k].call # NoCall

Unreadable(r) ==
  \/ runs[r].kind = "storyboard" /\ runs[r].styleAnalysis = "unreadable"
  \/ runs[r].kind = "logo" /\ runs[r].thrown = Some("read error")

\* C16: a storyboard run whose reference image could not be read goes on with
\* the style guide made of the style name alone, sends no style request,
\* sends its image requests and, once they have settled, its master request,
\* and fails only if the master request does; a logo run whose logo could not
\* be read has rejected and has sent no request
EncodeFailureByRecipe ==
  \A r \in RunIds :
    Unreadable(r) =>
      IF runs[r].kind = "storyboard"
        THEN /\ runs[r].styleGuide = StyleGuideBase(runs[r].selectedStyle)
             /\ runs[r].imageStyleKeywords = << >>
             /\ CallsOf(r, "style") = {}
             /\ CallsOf(r, "scene") # {}
             /\ runs[r].pc \in {"images", "master", "returned", "rejected"}
             /\ runs[r].pc # "images" => MasterIssued(r)
             /\ runs[r].pc = "rejected" => runs[r].thrown = Some(GenericError)
        ELSE /\ runs[r].pc = "rejected"
             /\ runs[r].result = None
             /\ CallsOfRun(calls, r) = {}

\* C16 witness: a storyboard that returned its result although its reference
\* image was unreadable, next to a logo run that the unreadable logo ended
EncodeFailureByRecipeWitness ==
  \E r, q \in RunIds :
    /\ runs[r].kind = "storyboard" /\ Unreadable(r)
    /\ runs[r].pc = "returned" /\ MasterIssued(r)
    /\ runs[q].kind = "logo" /\ Unreadable(q) /\ runs[q].pc = "rejected"

\* the positions of the marker lines of text: a marker token alone on its line
MarkerLines(text) ==
  { p \in 1..Len(text) :
      /\ text[p] \in Markers
      /\ p = 1 \/ text[p - 1] = NL
      /\ p = Len(text) \/ text[p + 1] = NL }
Least(S) == CHOOSE p \in S : \A q \in S : p <= q

\* C17 as claimed: the prompt of a preview taken from a master prompt that is
\* no JSON and has two marker lines or more is the trimmed text between the
\* first and the second marker line
FirstBlockExtracted ==
  \A r \in Previews :
    LET text == runs[r].masterText[1]
        lines == MarkerLines(text)
    IN ~JSONParse(text).ok /\ Cardinality(lines) >= 2 =>
         LET first == Least(lines)
             second == Least(lines \ {first})
         IN runs[r].prompt = Trim(SubSeq(text, first + 1, second - 1))

\* the positions at which the marker pattern matches, and where a match ends:
\* at the last token of its line that ends with dashes
MarkerStarts(text) == { p \in 1..Len(text) : text[p] \in Markers }
SameLine(text, p, q) == \A k \in p..q : text[k] # NL
LastDashes(text, p) ==
  CHOOSE q \in p..Len(text) :
    /\ EndsWithDashes(text[q]) /\ SameLine(text, p, q)
    /\ \A k \in (q + 1)..Len(text) :
         ~(EndsWithDashes(text[k]) /\ SameLine(text, p, k))

\* C17 amended: when the marker pattern matches twice or more in a master
\* prompt that is no JSON, the prompt of the preview is the trimmed text
\* between the first match and the next, unless that text is blank: then it is
\* the whole master prompt
FirstBlockOrWholePrompt ==
  \A r \in Previews :
    LET text == runs[r].masterText[1]
        starts == MarkerStarts(text)
    IN ~JSONParse(text).ok /\ starts # {} =>
         LET first == Least(starts)
             after == { p \in starts : p > LastDashes(text, first) }
         IN after # {} =>
              LET block == SubSeq(text, LastDashes(text, first) + 1, Least(after) - 1)
              IN runs[r].prompt = IF Blank(block) THEN text ELSE Trim(block)

\* C17 witness: a preview of the one block between two marker lines, with
\* text before the first marker and after the second
FirstBlockOrWholePromptWitness ==
  \E r \in Previews :
    /\ runs[r].masterText[1] =
         << DIGIT, NL, "--- SCENE 1 ---", NL, DIGIT, NL,
            "--- PROMPT 2: Reveal (2-4s) ---" >>
       \/ runs[r].masterText[1] =
            << "--- SCENE 1 ---", NL, DIGIT, NL, "--- PROMPT 2: Reveal (2-4s) ---" >>
    /\ runs[r].prompt = << DIGIT >>


\* the positions of the key points that hold more than white space
FilledPositions(points) == { i \in 1..Len(points) : ~Blank(points[i]) }
\* the j-th of them, counting from the start of the list
FilledAt(points, j) ==
  CHOOSE i \in FilledPositions(points) :
    Cardinality({ k \in FilledPositions(points) : k <= i }) = j

\* C18: the explainer generator's promptFormat is 'json' in every state, and
\* every request it makes carries 'json' and exactly the key points that are
\* not blank, unchanged and in the order of the list; a list of blank key
\* points is sent as the empty list and leaves the Generate button enabled.
ExplainerRequestJsonFilled ==
  /\ [](explainer.promptFormat = "json")
  /\ []((/\ ~Blank(explainer.topic) /\ ~explainer.isGenerating
         /\ FilledPositions(explainer.keyPoints) = {}
         /\ Len(explainer.requests) < MaxRuns)
        => ENABLED GenerateExplainer)
  /\ [][Len(explainer'.requests) > Len(explainer.requests) =>
         LET q == explainer'.requests[Len(explainer'.requests)]
             listed == explainer.keyPoints
         IN /\ q.promptFormat = "json"
            /\ Len(q.keyPoints) = Cardinality(FilledPositions(listed))
            /\ \A j \in 1..Len(q.keyPoints) :
                  q.keyPoints[j] = listed[FilledAt(listed, j)]]_vars

\* a first request made from blank key points, then a second one in flight
\* made from a list with a blank entry between two filled ones
ExplainerRequestJsonFilledWitness ==
  /\ explainer.isGenerating
  /\ Len(explainer.requests) = 2
  /\ explainer.requests[1].keyPoints = << >>
  /\ explainer.keyPoints = << << "a" >>, << SP >>, << SP, "b" >> >>
  /\ explainer.requests[2].keyPoints = << << "a" >>, << SP, "b" >> >>
  /\ explainer.requests[2].promptFormat = "json"

\* the runs a generator that is still mounted has started and not finished
Unfinished ==
  { r \in RunIds : /\ runs[r].caller = "generator" /\ runs[r].callerMounted
                   /\ runs[r].pc \notin {"returned", "rejected"} }

\* C19: a step in which a generator starts a run is taken with isGenerating
\* false and with no unfinished run of the mounted generator, and with the
\* input of its recipe present: a logo file for the logo recipe, a channel
\* name and a topic that are not blank for the channel-intro recipe, a scene
\* that is not blank for the storyboard recipe
StartedOnlyWithInput ==
  [][Len(runs') > Len(runs) /\ runs'[Len(runs')].caller = "generator" =>
       /\ ~isGenerating
       /\ Unfinished = {}
       /\ LET kind == runs'[Len(runs')].kind
          IN /\ kind = "logo" => logoFile
             /\ kind = "introOutro" => ~Blank(channelName) /\ ~Blank(videoTopic)
             /\ kind = "storyboard" =>
                  \E i \in 1..Len(scenes) : ~Blank(scenes[i])]_vars

\* a storyboard run in flight that was started with a blank scene next to a
\* filled one, after a channel-intro run
StartedOnlyWithInputWitness ==
  /\ Len(runs) = 2
  /\ runs[1].kind = "introOutro" /\ runs[1].caller = "generator"
  /\ runs[2].kind = "storyboard" /\ runs[2].caller = "generator"
  /\ runs[2].scenes = << << SP >>, << "a" >> >>
  /\ runs[2].callerMounted /\ isGenerating
  /\ Unfinished = {2}

\* the lists the App passes to setGenerationError
ErrorLists ==
  { << "Please add at least one scene to the storyboard." >>,
    << "Failed to generate storyboard.",
       "Please check your connection or API key and try again." >>,
    << "Image generation failed.",
       "Please check your API key or try a different prompt." >> }

\* the storyboard and preview runs that end by failing in this step
FailsNow(r) == runs[r].pc # "rejected" /\ runs'[r].pc = "rejected"

\* C20: generationError is null or one of the three lists in every state; the
\* step in which a storyboard or a preview run fails leaves the list of that
\* failure, whatever list was there; and the step in which such a run starts
\* leaves generationError null, unless the run is refused for want of a scene,
\* in which case it leaves the one-line list and the run has issued no call
GenerationErrorOneList ==
  /\ [](generationError = None
        \/ (Len(generationError) = 1 /\ generationError[1] \in ErrorLists))
  /\ [][\A r \in RunIds :
          FailsNow(r) /\ runs[r].kind \in {"storyboard", "preview"} =>
            /\ Len(generationError') = 1
            /\ Len(generationError'[1]) = 2
            /\ generationError'[1][1] =
                 (IF runs[r].kind = "preview" THEN "Image generation failed."
                                              ELSE "Failed to generate storyboard.")]_vars
  /\ [][Len(runs') > Len(runs) =>
         LET r == Len(runs')
         IN IF runs'[r].pc = "rejected"
              THEN /\ Len(generationError') = 1
                   /\ Len(generationError'[1]) = 1
                   /\ CallsOfRun(calls', r) = {}
              ELSE generationError' = None]_vars

\* a storyboard run that failed at its master call, then a preview run that
\* failed: the overlay holds the preview's list
GenerationErrorOneListWitness ==
  /\ Len(runs) = 2
  /\ runs[1].kind = "storyboard" /\ runs[1].pc = "rejected"
  /\ CallsOfRun(calls, 1) # {}
  /\ runs[2].kind = "preview" /\ runs[2].pc = "rejected"
  /\ generationError = Some(PreviewFailure)
  /\ \A c \in CallsOfRun(calls, 2) : c > Len(calls) - 1

\* the storyboard runs that have passed validation
Validated == { r \in Storyboards : runs[r].thrown # Some(AddSceneMsg) }
\* the run has left step 1: its image calls have been issued
PastStyle(r) == runs[r].pc \notin {"start", "encode", "style"}

\* the order of the calls of a run, common to C21 as claimed and as amended:
\* an image call is in the log only when the style-analysis call, if one was
\* sent, has been answered, and it follows that call; the master call is in
\* the log only when every image call has been answered, and it follows them;
\* there is at most one master call, and exactly one once the images are in
CallsInOrder(r) ==
  /\ CallsOf(r, "scene") # {} =>
       /\ PastStyle(r)
       /\ CallsOf(r, "style") # {} =>
            runs[r].styleAnalysis \in {"resolved", "rejected"}
       /\ \A c \in CallsOf(r, "style"), d \in CallsOf(r, "scene") : c < d
  /\ MasterIssued(r) =>
       /\ \A d \in CallsOf(r, "scene") :
            calls[d].answer # "pending" /\ \A c \in CallsOf(r, "master") : d < c
       /\ \A i \in 1..Len(runs[r].imagePromises) :
            runs[r].imagePromises[i].status # "pending"
  /\ Cardinality(CallsOf(r, "master")) <= 1
  /\ Cardinality(CallsOf(r, "style")) <= 1
  /\ runs[r].pc \in {"master", "returned", "rejected"} =>
       Cardinality(CallsOf(r, "master")) = 1

\* C21 as claimed: the calls of a validated storyboard run are in order, and
\* once step 1 is over the run has sent exactly one style-analysis call if it
\* has a reference image and none if it has not
StoryboardCallsSequenced ==
  \A r \in Validated :
    /\ CallsInOrder(r)
    /\ PastStyle(r) =>
         Cardinality(CallsOf(r, "style")) = (IF runs[r].imageFile THEN 1 ELSE 0)

\* C21 amended: the calls of a validated storyboard run are in order, and
\* once step 1 is over the run has sent exactly one style-analysis call if it
\* has a reference image that could be read, and none otherwise
StoryboardCallsSequencedIfRead ==
  \A r \in Validated :
    /\ CallsInOrder(r)
    /\ PastStyle(r) =>
         Cardinality(CallsOf(r, "style"))
           = (IF runs[r].imageFile /\ runs[r].styleAnalysis # "unreadable"
                THEN 1 ELSE 0)

\* a run with a reference image that could not be read has returned after two
\* image calls and its master call, without a style-analysis call
StoryboardCallsSequencedIfReadWitness ==
  \E r \in Validated :
    /\ runs[r].imageFile /\ runs[r].styleAnalysis = "unreadable"
    /\ runs[r].pc = "returned"
    /\ CallsOf(r, "style") = {}
    /\ Cardinality(CallsOf(r, "scene")) = 2
    /\ Cardinality(CallsOf(r, "master")) = 1

\* the scenes of a master request's parts: the numbers n of its 'Scene n' labels
Labelled(parts) ==
  { n \in 1..MaxScenes :
      \E p \in 1..Len(parts) :
        /\ Len(parts[p].text) >= 3
        /\ SubSeq(parts[p].text, 1, 3) = << "Scene ", ToString(n), ": " >> }
\* what the parts hold at each image part: the calls whose images are sent
ImagesSent(parts) ==
  { parts[p].inlineData[1] : p \in { q \in 1..Len(parts) : parts[q].inlineData # None } }

\* C22: in a storyboard run a blank scene has no generateImages call, a null
\* entry in sceneImages, and neither a label nor an image in the master
\* request; a scene that is not blank has the label 'Scene i' with its index i
\* followed by its trimmed text, and entry i of sceneImages is null or the
\* image of the call that was sent for scene i with that text
BlankScenesLeaveNoTrace ==
  \A r \in Storyboards : \A i \in 1..Len(runs[r].scenes) :
    LET sc == runs[r].scenes
        images == runs[r].sceneImages
    IN IF Blank(sc[i])
         THEN /\ \A c \in CallsOf(r, "scene") : calls[c].scene # i
              /\ images # << >> => images[i] = None
              /\ \A c \in CallsOf(r, "master") :
                   /\ i \notin Labelled(calls[c].parts)
                   /\ \A d \in ImagesSent(calls[c].parts) : calls[d].scene # i
         ELSE /\ images # << >> /\ images[i] # None =>
                   /\ calls[images[i][1]].run = r
                   /\ calls[images[i][1]].scene = i
                   /\ calls[images[i][1]].prompt[Len(calls[images[i][1]].prompt)]
                        = sc[i][Len(sc[i])]
              /\ \A c \in CallsOf(r, "master") :
                   \E p \in 1..Len(calls[c].parts) :
                     calls[c].parts[p].text
                       = << "Scene ", ToString(i), ": " >> \o Trim(sc[i])

\* a returned run of three scenes, the second blank: labels 1 and 3 and the
\* images of scenes 1 and 3 are in the master request, entry 2 is null
BlankScenesLeaveNoTraceWitness ==
  \E r \in Storyboards : \E c \in CallsOf(r, "master") :
    /\ runs[r].pc = "returned"
    /\ Len(runs[r].scenes) = 3
    /\ runs[r].scenes[2] = << SP >>
    /\ Labelled(calls[c].parts) = {1, 3}
    /\ runs[r].result[1].sceneImages[1] # None
    /\ runs[r].result[1].sceneImages[2] = None
    /\ runs[r].result[1].sceneImages[3] # None
    /\ Cardinality(ImagesSent(calls[c].parts)) = 2

\* C23 as claimed: when a storyboard generation started by a generator that
\* has since been unmounted and one started by the generator now mounted have
\* both returned, the page shows the master prompt and the scene images of the
\* later one
NewestGenerationShown ==
  \A older \in Storyboards, newer \in Storyboards :
    ( /\ older < newer
      /\ runs[older].caller = "generator" /\ ~runs[older].callerMounted
      /\ runs[newer].caller = "generator" /\ runs[newer].callerMounted
      /\ runs[older].pc = "returned" /\ runs[newer].pc = "returned" )
    => /\ masterPrompt = runs[newer].result[1].prompts
       /\ visualStoryboard = runs[newer].result[1].sceneImages

\* C24 as claimed: the step in which a generator starts a run, and the step in
\* which a run of the mounted generator fails, both leave masterPrompt empty
\* and, for a storyboard run, the visual storyboard empty
FailedGenerationShowsNothing ==
  [][/\ Len(runs') > Len(runs) /\ runs'[Len(runs')].caller = "generator" =>
          /\ masterPrompt' = << >>
          /\ runs'[Len(runs')].kind = "storyboard" =>
               visualStoryboard' = << >> /\ genVisualStoryboard' = << >>
     /\ \A r \in RunIds :
          ( /\ runs[r].caller = "generator" /\ runs[r].callerMounted
            /\ runs[r].pc # "rejected" /\ runs'[r].pc = "rejected" )
          => /\ masterPrompt' = << >>
             /\ runs[r].kind = "storyboard" =>
                  visualStoryboard' = << >> /\ genVisualStoryboard' = << >>]_vars

\* the run has been started and has not ended
InFlight(r) == r \in RunIds /\ runs[r].pc \notin {"returned", "rejected"}
\* the run has ended and has left its flag cleared: isSaving for a preview,
\* isGenerating for a run whose generator is still mounted
BackToIdle(r) ==
  /\ r \in RunIds /\ runs[r].pc \in {"returned", "rejected"}
  /\ runs[r].kind = "preview" => ~isSaving
  /\ runs[r].caller = "generator" /\ runs[r].callerMounted => ~isGenerating

\* C25: where every file read and service call is answered, every run that
\* is in flight ends, by success or failure, and leaves its flag cleared;
\* while a run is in flight the flag is set (isSaving for a preview,
\* isGenerating for the mounted generator's run), the page is not shown
\* during a preview, and no run is started by a generator while its own run
\* is in flight, nor any run at all during a preview
FlagFollowsRun ==
  /\ \A r \in 1..MaxRuns : InFlight(r) ~> BackToIdle(r)
  /\ [](\A r \in RunIds :
          InFlight(r) =>
            /\ runs[r].kind = "preview" => isSaving /\ ~PageShown
            /\ runs[r].caller = "generator" /\ runs[r].callerMounted =>
                 isGenerating)
  /\ [][Len(runs') > Len(runs) =>
         \A r \in RunIds :
           InFlight(r) =>
             /\ runs[r].kind # "preview"
             /\ runs'[Len(runs')].caller = "generator" =>
                  ~(runs[r].caller = "generator" /\ runs[r].callerMounted)]_vars

\* a preview has failed and a storyboard of the mounted generator has
\* returned, and neither flag is set
FlagFollowsRunWitness ==
  /\ Len(runs) = 2
  /\ \E r \in RunIds : runs[r].kind = "preview" /\ runs[r].pc = "rejected"
  /\ \E r \in RunIds :
       /\ runs[r].kind = "storyboard" /\ runs[r].pc = "returned"
       /\ runs[r].callerMounted
  /\ ~isSaving /\ ~isGenerating

\* C26 as claimed: the step that deletes the scene at an index that has an
\* entry in the displayed visual storyboard removes that entry, the entries
\* after it moving up with their scenes
DeleteRemovesImage ==
  [][\A index \in 1..MaxUIScenes :
       handleDeleteScene(index) /\ index <= Len(visualStoryboard) =>
         visualStoryboard' = RemoveAt(visualStoryboard, index)]_vars

\* the text of the generation_prompt of a parsed element, empty if there is none
PromptOf(v) ==
  IF v.type = "object" /\ v.generation_prompt # None
    THEN v.generation_prompt[1].text ELSE << >>

\* the prompt C27 names for a master prompt: by the shape of the parsed text
\* first, by the markers only where the text is no JSON
NamedPrompt(prompt) ==
  LET parsed == JSONParse(prompt)
      candidate ==
        IF parsed.ok /\ parsed.val.type = "array" /\ parsed.val.items # << >>
          THEN PromptOf(parsed.val.items[1])
        ELSE IF /\ parsed.ok /\ parsed.val.type = "object"
                /\ parsed.val.scenes # None
                /\ parsed.val.scenes[1].items # << >>
          THEN PromptOf(parsed.val.scenes[1].items[1])
        ELSE IF ~parsed.ok /\ Len(SplitMarkers(prompt, 1)) > 1
          THEN Trim(SplitMarkers(prompt, 1)[2])
        ELSE << >>
  IN IF Blank(candidate) THEN prompt ELSE candidate

\* C27 as claimed: where the page shows a master prompt that is not empty, a
\* click on Generate Example Scene starts one preview whose one request
\* carries the prompt named above, which is not empty
ExampleSceneByShape ==
  ( /\ PageShown /\ videoType # "storyboard" /\ masterPrompt # << >>
    /\ Len(runs) < MaxRuns )
  => ENABLED ( /\ handleGenerateScene
               /\ Len(runs') = Len(runs) + 1
               /\ Len(calls') = Len(calls) + 1
               /\ calls'[Len(calls')].prompt = NamedPrompt(masterPrompt)
               /\ calls'[Len(calls')].prompt # << >> )

\* the style prefix a run's scene prompts start with: the selected style's name
\* unless it is 'No Style', then the keywords read from the reference image
\* when the style analysis resolved, each followed by ', '
PrefixOf(r) ==
  (IF runs[r].selectedStyle # NoStyle
     THEN << runs[r].selectedStyle, ", " >> ELSE << >>)
  \o (IF runs[r].styleAnalysis = "resolved"
        THEN StyleKeywords \o << ", " >> ELSE << >>)

\* C28: every generateImages request of a storyboard run asks for aspect ratio
\* 4:3 and its prompt is the run's style prefix (the selected style's name
\* unless 'No Style', then the image-derived keywords if the style analysis
\* succeeded), the words 'cinematic shot depicting ' and the trimmed text of its
\* scene; with 'No Style' and no keywords the prompt starts with those words
ScenePromptsShareStyle ==
  \A r \in Storyboards :
    \A c \in CallsOf(r, "scene") :
      /\ calls[c].aspectRatio = "4:3"
      /\ calls[c].prompt = PrefixOf(r) \o << "cinematic shot depicting " >>
                             \o Trim(runs[r].scenes[calls[c].scene])
      /\ (runs[r].selectedStyle = NoStyle /\ runs[r].styleAnalysis # "resolved")
           => calls[c].prompt[1] = "cinematic shot depicting "

\* C28 witness: a run with a named style and a resolved style analysis has sent
\* the requests of two scenes
ScenePromptsShareStyleWitness ==
  \E r \in Storyboards :
    /\ runs[r].selectedStyle # NoStyle
    /\ runs[r].styleAnalysis = "resolved"
    /\ Cardinality(CallsOf(r, "scene")) = 2

\* C29: a step that changes the video type of the page the App keeps showing
\* leaves the page with an empty master prompt and an empty visual storyboard,
\* and leaves the App's generationError, isSaving, playingVideo and
\* generatedResult as they were
VideoTypeChangeClearsOutputs ==
  [][PageShown /\ PageShown' /\ videoType' # videoType =>
       /\ masterPrompt' = << >>
       /\ visualStoryboard' = << >>
       /\ UNCHANGED appVars]_vars

\* C29 witness: the page showed the images of a returned storyboard and shows
\* none after the type was changed, while the App still holds an error
VideoTypeChangeClearsOutputsWitness ==
  /\ videoType # "storyboard"
  /\ masterPrompt = << >>
  /\ visualStoryboard = << >>
  /\ generationError # None
  /\ \E r \in Storyboards :
       /\ runs[r].pc = "returned"
       /\ runs[r].pageMounted
       /\ runs[r].result[1].prompts # << >>

\* C30: the scene list and the key-point list hold at least one entry in every
\* state, whatever was added, changed and deleted; deleting the only scene
\* leaves one empty scene and an empty visual storyboard in the generator,
\* deleting the only key point leaves one empty key point
ListsNeverEmpty ==
  /\ [](Len(scenes) >= 1 /\ Len(explainer.keyPoints) >= 1)
  /\ [][(Len(scenes) = 1 /\ handleDeleteScene(1))
          => scenes' = << << >> >> /\ genVisualStoryboard' = << >>]_vars
  /\ [][(Len(explainer.keyPoints) = 1 /\ handleDeleteKeyPoint(1))
          => explainer'.keyPoints = << << >> >>]_vars

\* C30 witness: the generator held the images of a returned storyboard and
\* holds none after its only scene was deleted, and the key-point list holds
\* one empty entry
ListsNeverEmptyWitness ==
  /\ scenes = << << >> >>
  /\ genVisualStoryboard = << >>
  /\ runs # << >>
  /\ \A r \in RunIds : runs[r].pc = "returned" /\ runs[r].callerMounted
  /\ explainer.keyPoints = << << >> >>

====
